---- MODULE Spec2Model ----
(***************************************************************************)
(* Caregiver-finance backend: the pay-period lifecycle, the settlement     *)
(* calculator and the settlement record lifecycle, modelled as a state     *)
(* machine over the relational store.  One action per request handler.     *)
(* Money is counted in whole cents; a fair share is counted in half cents. *)
(***************************************************************************)
EXTENDS Integers, Sequences, FiniteSets, TLC

\* ---------------------------------------------------------------- bounds
MaxPeriods == 2      \* rows the pay_periods table may hold
MaxExpenses == 1     \* rows the expenses table may hold
MaxTimeEntries == 1  \* rows the time_entries table may hold
MaxCalcExpenses == 3 \* expenses of the period whose settlement is calculated
MaxRequests == 4     \* requests served in one run

\* ------------------------------------------------------- value domains
Dates == {0, 1}                  \* calendar days of the requests
PeriodLengths == {1, 2}          \* period_length_days of the requests
Amounts == {1, 2}                \* expense amounts of the requests, in cents
Times == {1}                     \* readings of datetime.now()
PeriodIds == 1..(MaxPeriods + 1) \* period ids of the requests: one is unknown
CaregiverNames == {"Julia"}      \* caregiver names of the requests
CaregiverIds == {1, 2}           \* caregiver ids of the requests: one is unknown
Hours == {0, 50}                 \* hours worked, in hundredths of an hour
Rates == {1, 3}                  \* hourly rates, in cents

None == <<>>
Some(x) == <<x>>

\* PeriodStatus
OPEN == "open"
CLOSED == "closed"

\* Payer
ADI == "Adi"
RAFI == "Rafi"
Payers == {ADI, RAFI}

\* ExpenseCategory: the category of caregiver payments and one of the others
CAREGIVER_PAYMENT == "Caregiver Payment"
\* ExpenseCategory.OTHER (OTHER is a reserved word)
CATEGORY_OTHER == "Other"
Categories == {CAREGIVER_PAYMENT, CATEGORY_OTHER}

\* SettlementDirection
ADI_OWES_RAFI == "adi_owes_rafi"
RAFI_OWES_ADI == "rafi_owes_adi"
EVEN == "even"

\* MarkSettledRequest.payment_method: optional free text
PaymentMethods == {None, Some("Venmo")}

\* HTTP status codes of the responses
HTTP_200 == 200
HTTP_201 == 201
HTTP_400 == 400
HTTP_404 == 404
HTTP_422 == 422
HTTP_500 == 500

\* ---------------------------------------------------------------- state
VARIABLES served,       \* number of requests served so far
          periods,      \* table pay_periods: row id = position
          settlements,  \* table settlements: row id = position
          expenses,     \* table expenses: row id = position
          time_entries, \* table time_entries: row id = position
          caregivers,   \* table caregivers: row id = position
          sessions,     \* per worker thread: the request in flight, if any
          last          \* the last two requests served and their response status

vars == <<served, periods, settlements, expenses, time_entries, caregivers,
         sessions, last>>

\* worker threads serving requests, each with a database session of its own
Workers == {1, 2}
Idle == [pc |-> "idle"]
\* the pool hands a request to its first free thread
FirstIdle(w) == sessions[w] = Idle /\ \A v \in Workers : v < w => sessions[v] # Idle

\* the handlers of the settlements router
SettlementOps == {"get_settlement", "recalculate_settlement", "mark_settled", "unsettle"}

\* the handlers whose successful requests are remembered for one more request
RecordedOps == SettlementOps \cup {"generate_pay_periods"}

\* the request served and its response status; prev is the request served
\* just before it, kept when that was a settlement request or a bulk
\* generation that succeeded
Request(op, args, st) ==
    [op |-> op, args |-> args, status |-> st,
     prev |-> IF last.op \in RecordedOps /\ last.status = HTTP_200
              THEN Some([op |-> last.op, args |-> last.args])
              ELSE None]

\* a request is served and answered with status st
Accept ==
    /\ served < MaxRequests
    /\ served' = served + 1

\* a request is served without interruption and answered with status st
Respond(op, args, st) ==
    /\ Accept
    /\ last' = Request(op, args, st)
    /\ UNCHANGED sessions

Init ==
    /\ served = 0
    /\ periods = <<>>
    /\ settlements = <<>>
    /\ expenses = <<>>
    /\ time_entries = <<>>
    /\ caregivers = <<>>
    /\ sessions = [w \in Workers |-> Idle]
    /\ last = [op |-> "startup", args |-> <<>>, status |-> HTTP_200, prev |-> None]

\* ------------------------------------------------------------- queries
\* db.query(PayPeriod).filter(PayPeriod.id == period_id).first()
PeriodExists(period_id) == period_id \in 1..Len(periods)

\* db.query(PayPeriod).filter(PayPeriod.status == PeriodStatus.OPEN).first()
OpenPeriods(ps) == {i \in 1..Len(ps) : ps[i].status = OPEN}
\* variant: the query filters on the wrong status
existing_open_wrong_status(ps) == \E i \in 1..Len(ps) : ps[i].status = CLOSED
existing_open(ps) == OpenPeriods(ps) # {}

\* db.query(Settlement).filter(Settlement.pay_period_id == period_id).first()
SettlementsOf(ss, period_id) == {k \in 1..Len(ss) : ss[k].pay_period_id = period_id}
Min(S) == CHOOSE m \in S : \A n \in S : m <= n
FirstSettlement(ss, period_id) ==
    IF SettlementsOf(ss, period_id) = {} THEN 0 ELSE Min(SettlementsOf(ss, period_id))

\* ------------------------------------------------- pay-period lifecycle
\* PayPeriodCreate validator: end_date must be after start_date
\* variant: the validator compares with < where the code has <=
end_date_may_equal_start(start_date, end_date) == end_date >= start_date
end_date_must_be_after_start(start_date, end_date) == end_date > start_date

\* a row of pay_periods; the requests modelled create it without notes, the
\* bulk generation with a fixed text on the historical ones
AutoNotes(is_historical) ==
    IF is_historical THEN Some("Auto-generated from import") ELSE None
PayPeriod(start_date, end_date, st, hist) ==
    [start_date |-> start_date, end_date |-> end_date,
     status |-> st, is_historical |-> hist, notes |-> AutoNotes(hist)]

\* POST /api/pay-periods
create_pay_period(start_date, end_date) ==
    /\ Len(periods) < MaxPeriods
    /\ IF ~end_date_must_be_after_start(start_date, end_date)
       THEN /\ Respond("create_pay_period", <<start_date, end_date>>, HTTP_422)
            /\ UNCHANGED periods
       ELSE IF existing_open(periods)
       THEN /\ Respond("create_pay_period", <<start_date, end_date>>, HTTP_400)
            /\ UNCHANGED periods
       ELSE /\ periods' = Append(periods, PayPeriod(start_date, end_date, OPEN, FALSE))
            /\ Respond("create_pay_period", <<start_date, end_date>>, HTTP_201)
    /\ UNCHANGED <<settlements, expenses, time_entries, caregivers>>

\* PayPeriodUpdate.notes
NotesUpdates == {None, Some("paid in cash")}

\* variant: the update puts the period back to OPEN
update_pay_period_reopening(period_id, notes) ==
    /\ IF ~PeriodExists(period_id)
       THEN /\ Respond("update_pay_period", <<period_id>>, HTTP_404)
            /\ UNCHANGED periods
       ELSE /\ periods' = [periods EXCEPT ![period_id].status = OPEN,
                                          ![period_id].notes =
                                              IF notes # None THEN notes ELSE @]
            /\ Respond("update_pay_period", <<period_id>>, HTTP_200)
    /\ UNCHANGED <<settlements, expenses, time_entries, caregivers>>
\* PUT /api/pay-periods/{period_id}
update_pay_period(period_id, notes) ==
    /\ IF ~PeriodExists(period_id)
       THEN /\ Respond("update_pay_period", <<period_id>>, HTTP_404)
            /\ UNCHANGED periods
       ELSE /\ periods' = [periods EXCEPT ![period_id].notes =
                                              IF notes # None THEN notes ELSE @]
            /\ Respond("update_pay_period", <<period_id>>, HTTP_200)
    /\ UNCHANGED <<settlements, expenses, time_entries, caregivers>>

\* variant: no check for a period that is already closed
close_pay_period_unchecked(period_id) ==
    /\ IF ~PeriodExists(period_id)
       THEN /\ Respond("close_pay_period", <<period_id>>, HTTP_404)
            /\ UNCHANGED periods
       ELSE /\ periods' = [periods EXCEPT ![period_id].status = CLOSED]
            /\ Respond("close_pay_period", <<period_id>>, HTTP_200)
    /\ UNCHANGED <<settlements, expenses, time_entries, caregivers>>

\* variant: closing a period also resets the settled flag of its settlement
close_pay_period_unsettling(period_id) ==
    /\ IF ~PeriodExists(period_id)
       THEN /\ Respond("close_pay_period", <<period_id>>, HTTP_404)
            /\ UNCHANGED <<periods, settlements>>
       ELSE IF periods[period_id].status = CLOSED
       THEN /\ Respond("close_pay_period", <<period_id>>, HTTP_400)
            /\ UNCHANGED <<periods, settlements>>
       ELSE /\ periods' = [periods EXCEPT ![period_id].status = CLOSED]
            /\ settlements' = [k \in 1..Len(settlements) |->
                  IF settlements[k].pay_period_id = period_id
                  THEN [settlements[k] EXCEPT !.settled = FALSE, !.settled_at = None]
                  ELSE settlements[k]]
            /\ Respond("close_pay_period", <<period_id>>, HTTP_200)
    /\ UNCHANGED <<expenses, time_entries, caregivers>>

\* POST /api/pay-periods/{period_id}/close
close_pay_period(period_id) ==
    /\ IF ~PeriodExists(period_id)
       THEN /\ Respond("close_pay_period", <<period_id>>, HTTP_404)
            /\ UNCHANGED periods
       ELSE IF periods[period_id].status = CLOSED
       THEN /\ Respond("close_pay_period", <<period_id>>, HTTP_400)
            /\ UNCHANGED periods
       ELSE /\ periods' = [periods EXCEPT ![period_id].status = CLOSED]
            /\ Respond("close_pay_period", <<period_id>>, HTTP_200)
    /\ UNCHANGED <<settlements, expenses, time_entries, caregivers>>

\* Reopen endpoint, POST /api/pay-periods/{period_id}/reopen: the settlement
\* of the reopened period, if there is one, is force-unsettled
\* variant: the settlement is left as it is
ForceUnsettle_skipped(ss, period_id) == ss
\* variant: a period without a settlement is given an empty, unsettled one
ForceUnsettle_creating(ss, period_id) ==
    IF FirstSettlement(ss, period_id) = 0
    THEN Append(ss, [pay_period_id |-> period_id, total_caregiver_cost |-> 0,
                     total_expenses |-> 0, adi_paid |-> 0, rafi_paid |-> 0,
                     settlement_amount |-> 0, settlement_direction |-> EVEN,
                     carryover_amount |-> 0, final_amount |-> 0, settled |-> FALSE,
                     settled_at |-> None, payment_method |-> None])
    ELSE [ss EXCEPT ![FirstSettlement(ss, period_id)].settled = FALSE,
                    ![FirstSettlement(ss, period_id)].settled_at = None]
ForceUnsettle(ss, period_id) ==
    IF FirstSettlement(ss, period_id) = 0 THEN ss
    ELSE [ss EXCEPT ![FirstSettlement(ss, period_id)].settled = FALSE,
                    ![FirstSettlement(ss, period_id)].settled_at = None]

\* variant: no check for another open period
reopen_pay_period_ignoring_open(period_id) ==
    IF ~PeriodExists(period_id)
    THEN /\ Respond("reopen_pay_period", <<period_id>>, HTTP_404)
         /\ UNCHANGED <<periods, settlements, expenses, time_entries, caregivers>>
    ELSE IF periods[period_id].status = OPEN
    THEN /\ Respond("reopen_pay_period", <<period_id>>, HTTP_400)
         /\ UNCHANGED <<periods, settlements, expenses, time_entries, caregivers>>
    ELSE /\ periods' = [periods EXCEPT ![period_id].status = OPEN]
         /\ settlements' = ForceUnsettle(settlements, period_id)
         /\ Respond("reopen_pay_period", <<period_id>>, HTTP_200)
         /\ UNCHANGED <<expenses, time_entries, caregivers>>

\* variant: no check for a period that is already open
reopen_pay_period_unchecked(period_id) ==
    IF ~PeriodExists(period_id)
    THEN /\ Respond("reopen_pay_period", <<period_id>>, HTTP_404)
         /\ UNCHANGED <<periods, settlements, expenses, time_entries, caregivers>>
    ELSE IF existing_open(periods) /\ periods[period_id].status # OPEN
    THEN /\ Respond("reopen_pay_period", <<period_id>>, HTTP_400)
         /\ UNCHANGED <<periods, settlements, expenses, time_entries, caregivers>>
    ELSE /\ periods' = [periods EXCEPT ![period_id].status = OPEN]
         /\ settlements' = ForceUnsettle(settlements, period_id)
         /\ Respond("reopen_pay_period", <<period_id>>, HTTP_200)
         /\ UNCHANGED <<expenses, time_entries, caregivers>>

\* variant: a closed period is reported as reopened but keeps its status
reopen_pay_period_keeping_status(period_id) ==
    IF ~PeriodExists(period_id)
    THEN /\ Respond("reopen_pay_period", <<period_id>>, HTTP_404)
         /\ UNCHANGED <<periods, settlements, expenses, time_entries, caregivers>>
    ELSE IF periods[period_id].status = OPEN
    THEN /\ Respond("reopen_pay_period", <<period_id>>, HTTP_400)
         /\ UNCHANGED <<periods, settlements, expenses, time_entries, caregivers>>
    ELSE IF existing_open(periods)
    THEN /\ Respond("reopen_pay_period", <<period_id>>, HTTP_400)
         /\ UNCHANGED <<periods, settlements, expenses, time_entries, caregivers>>
    ELSE /\ settlements' = ForceUnsettle(settlements, period_id)
         /\ Respond("reopen_pay_period", <<period_id>>, HTTP_200)
         /\ UNCHANGED <<periods, expenses, time_entries, caregivers>>

reopen_pay_period(period_id) ==
    IF ~PeriodExists(period_id)
    THEN /\ Respond("reopen_pay_period", <<period_id>>, HTTP_404)
         /\ UNCHANGED <<periods, settlements, expenses, time_entries, caregivers>>
    ELSE IF periods[period_id].status = OPEN
    THEN /\ Respond("reopen_pay_period", <<period_id>>, HTTP_400)
         /\ UNCHANGED <<periods, settlements, expenses, time_entries, caregivers>>
    ELSE IF existing_open(periods)
    THEN /\ Respond("reopen_pay_period", <<period_id>>, HTTP_400)
         /\ UNCHANGED <<periods, settlements, expenses, time_entries, caregivers>>
    ELSE /\ periods' = [periods EXCEPT ![period_id].status = OPEN]
         /\ settlements' = ForceUnsettle(settlements, period_id)
         /\ Respond("reopen_pay_period", <<period_id>>, HTTP_200)
         /\ UNCHANGED <<expenses, time_entries, caregivers>>

\* ------------------------------------------------ bulk period generation
\* the status given to a generated period: CLOSED if historical, else OPEN
GeneratedStatus(is_historical) == IF is_historical THEN CLOSED ELSE OPEN

\* ImportService.generate_pay_periods, the while loop: the pay_periods table
\* after the loop has run from current_start (each new row is flushed, so the
\* next iteration's query sees it)
\* variant: the loop does not look for an existing period
RECURSIVE GenerateLoop_duplicating(_, _, _, _, _)
GenerateLoop_duplicating(ps, current_start, end_date, period_length_days, today) ==
    IF ~(current_start <= end_date) THEN ps
    ELSE LET current_end == current_start + period_length_days - 1
             is_historical == current_end < today
             period == PayPeriod(current_start, current_end,
                                 GeneratedStatus(is_historical), is_historical)
         IN GenerateLoop_duplicating(Append(ps, period),
                         current_end + 1, end_date, period_length_days, today)
RECURSIVE GenerateLoop(_, _, _, _, _)
GenerateLoop(ps, current_start, end_date, period_length_days, today) ==
    IF ~(current_start <= end_date) THEN ps
    ELSE LET current_end == current_start + period_length_days - 1
             existing == \E i \in 1..Len(ps) :
                            /\ ps[i].start_date = current_start
                            /\ ps[i].end_date = current_end
             is_historical == current_end < today
             period == PayPeriod(current_start, current_end,
                                 GeneratedStatus(is_historical), is_historical)
         IN GenerateLoop(IF existing THEN ps ELSE Append(ps, period),
                         current_end + 1, end_date, period_length_days, today)

\* POST /api/import/generate-periods, with period_length_days >= 1 (the loop
\* makes no progress otherwise); today is the reading of date.today()
generate_pay_periods(start_date, end_date, period_length_days, today) ==
    LET ps == GenerateLoop(periods, start_date, end_date, period_length_days, today)
    IN /\ Len(ps) <= MaxPeriods
       /\ periods' = ps
       /\ Respond("generate_pay_periods",
                  <<start_date, end_date, period_length_days, today>>, HTTP_200)
       /\ UNCHANGED <<settlements, expenses, time_entries, caregivers>>

\* ------------------------------------------------------------ expenses
\* ExpenseCreate validator: amount must be positive
amount_must_be_positive(amount) == amount > 0

Expense(period_id, amount, paid_by, category) ==
    [pay_period_id |-> period_id, amount |-> amount, paid_by |-> paid_by,
     category |-> category]

\* db.query(PayPeriod).filter(PayPeriod.start_date <= date,
\*                            PayPeriod.end_date >= date).first(); 0 if none
PeriodsContaining(date) ==
    {i \in 1..Len(periods) : periods[i].start_date <= date /\ periods[i].end_date >= date}
PeriodForDate(date) ==
    IF PeriodsContaining(date) = {} THEN 0 ELSE Min(PeriodsContaining(date))

\* POST /api/expenses; pay_period_id 0 stands for a request that gives none
create_expense(pay_period_id, date, amount, paid_by, category) ==
    /\ Len(expenses) < MaxExpenses
    /\ IF ~amount_must_be_positive(amount)
       THEN /\ Respond("create_expense", <<pay_period_id>>, HTTP_422)
            /\ UNCHANGED expenses
       ELSE IF pay_period_id # 0 /\ ~PeriodExists(pay_period_id)
       THEN /\ Respond("create_expense", <<pay_period_id>>, HTTP_404)
            /\ UNCHANGED expenses
       ELSE IF pay_period_id = 0 /\ PeriodForDate(date) = 0
       THEN /\ Respond("create_expense", <<pay_period_id>>, HTTP_400)
            /\ UNCHANGED expenses
       ELSE /\ expenses' = Append(expenses,
                 Expense(IF pay_period_id # 0 THEN pay_period_id ELSE PeriodForDate(date),
                         amount, paid_by, category))
            /\ Respond("create_expense", <<pay_period_id>>, HTTP_201)
    /\ UNCHANGED <<periods, settlements, time_entries, caregivers>>

\* ExpenseUpdate: every field is optional; None stands for a field the
\* request does not set
ExpenseUpdates ==
    [amount : {None, Some(-2)}, paid_by : {None, Some(RAFI)}, category : {None}]
NoUpdate == [amount |-> None, paid_by |-> None, category |-> None]

\* update.model_dump(exclude_unset=True), then setattr for each field it holds
SetFields(expense, update) ==
    [expense EXCEPT
        !.amount = IF update.amount = None THEN @ ELSE update.amount[1],
        !.paid_by = IF update.paid_by = None THEN @ ELSE update.paid_by[1],
        !.category = IF update.category = None THEN @ ELSE update.category[1]]

\* PUT /api/expenses/{expense_id}
update_expense(expense_id, update) ==
    /\ IF ~(expense_id \in 1..Len(expenses))
       THEN /\ Respond("update_expense", <<expense_id>>, HTTP_404)
            /\ UNCHANGED expenses
       ELSE /\ expenses' = [expenses EXCEPT ![expense_id] = SetFields(@, update)]
            /\ Respond("update_expense", <<expense_id>>, HTTP_200)
    /\ UNCHANGED <<periods, settlements, time_entries, caregivers>>

\* POST /api/expenses/bulk-update
bulk_update_expenses(ids, update) ==
    /\ IF ids = {} \/ update = NoUpdate
       THEN UNCHANGED expenses
       ELSE expenses' = [i \in 1..Len(expenses) |->
                            IF i \in ids THEN SetFields(expenses[i], update)
                            ELSE expenses[i]]
    /\ Respond("bulk_update_expenses", <<ids>>, HTTP_200)
    /\ UNCHANGED <<periods, settlements, time_entries, caregivers>>

\* the parsed rows of an import request: any amount, paid_by and category as
\* free text, a date or none
ImportAmounts == {-1}
ImportRows ==
    [amount : ImportAmounts, paid_by : {"Adi", "Mom"}, category : {"Misc"},
     date : {None, Some(0)}]

\* import_expenses lines 182-194: text that names no Payer counts as Rafi,
\* text that names no ExpenseCategory as Other
\* variant: the text is stored as it is
ParsePayer_verbatim(paid_by_str) == paid_by_str
ParsePayer(paid_by_str) == IF paid_by_str \in Payers THEN paid_by_str ELSE RAFI
ParseCategory(category_str) ==
    IF category_str \in Categories THEN category_str ELSE CATEGORY_OTHER

\* import_expenses lines 196-207: the period of the row's date, else the default
ImportPeriod(row, default_period_id) ==
    IF row.date # None /\ PeriodForDate(row.date[1]) # 0
    THEN PeriodForDate(row.date[1])
    ELSE default_period_id

\* ImportService.import_expenses, the loop: the expenses table after the rows
\* of the batch; a row without a period is reported and skipped
RECURSIVE ImportLoop(_, _, _)
ImportLoop(es, batch, default_period_id) ==
    IF batch = <<>> THEN es
    ELSE ImportLoop(
            IF ImportPeriod(Head(batch), default_period_id) = 0 THEN es
            ELSE Append(es, Expense(ImportPeriod(Head(batch), default_period_id),
                                    Head(batch).amount,
                                    ParsePayer(Head(batch).paid_by),
                                    ParseCategory(Head(batch).category))),
            Tail(batch), default_period_id)

\* POST /api/import/expenses; default_period_id 0 stands for none given
import_expenses(batch, default_period_id) ==
    /\ Len(ImportLoop(expenses, batch, default_period_id)) <= MaxCalcExpenses
    /\ expenses' = ImportLoop(expenses, batch, default_period_id)
    /\ Respond("import_expenses", <<default_period_id>>, HTTP_200)
    /\ UNCHANGED <<periods, settlements, time_entries, caregivers>>

\* ------------------------------------------- caregivers and time entries
\* POST /api/caregivers
create_caregiver(name) ==
    /\ IF \E i \in 1..Len(caregivers) : caregivers[i].name = name
       THEN /\ Respond("create_caregiver", <<name>>, HTTP_400)
            /\ UNCHANGED caregivers
       ELSE /\ caregivers' = Append(caregivers, [name |-> name])
            /\ Respond("create_caregiver", <<name>>, HTTP_201)
    /\ UNCHANGED <<periods, settlements, expenses, time_entries>>

\* TimeEntryCreate validator; hours are in hundredths of an hour
hours_must_be_positive(hours) == ~(hours <= 0) /\ ~(hours > 2400)

\* Decimal.quantize on n / d: the nearest integer, ties to the even one
RoundHalfEven(n, d) ==
    LET q == n \div d
        r == n % d
    IN IF 2 * r < d THEN q
       ELSE IF 2 * r > d THEN q + 1
       ELSE IF q % 2 = 0 THEN q ELSE q + 1

\* calculate_total_pay: hours in hundredths times a rate in cents, to the cent
calculate_total_pay(hours, hourly_rate) == RoundHalfEven(hours * hourly_rate, 100)

TimeEntry(period_id, caregiver_id, hours, hourly_rate) ==
    [pay_period_id |-> period_id, caregiver_id |-> caregiver_id,
     hours |-> hours, hourly_rate |-> hourly_rate,
     total_pay |-> calculate_total_pay(hours, hourly_rate)]

\* POST /api/time-entries; pay_period_id 0 stands for a request that gives none
create_time_entry(caregiver_id, pay_period_id, date, hours, hourly_rate) ==
    /\ Len(time_entries) < MaxTimeEntries
    /\ IF ~hours_must_be_positive(hours)
       THEN /\ Respond("create_time_entry", <<caregiver_id, pay_period_id>>, HTTP_422)
            /\ UNCHANGED time_entries
       ELSE IF ~(caregiver_id \in 1..Len(caregivers))
       THEN /\ Respond("create_time_entry", <<caregiver_id, pay_period_id>>, HTTP_404)
            /\ UNCHANGED time_entries
       ELSE IF pay_period_id # 0 /\ ~PeriodExists(pay_period_id)
       THEN /\ Respond("create_time_entry", <<caregiver_id, pay_period_id>>, HTTP_404)
            /\ UNCHANGED time_entries
       ELSE IF pay_period_id = 0 /\ PeriodForDate(date) = 0
       THEN /\ Respond("create_time_entry", <<caregiver_id, pay_period_id>>, HTTP_400)
            /\ UNCHANGED time_entries
       ELSE /\ time_entries' = Append(time_entries,
                 TimeEntry(IF pay_period_id # 0 THEN pay_period_id ELSE PeriodForDate(date),
                           caregiver_id, hours, hourly_rate))
            /\ Respond("create_time_entry", <<caregiver_id, pay_period_id>>, HTTP_201)
    /\ UNCHANGED <<periods, settlements, expenses, caregivers>>

\* TimeEntryUpdate: every field optional and none validated; None stands for
\* a field the request does not set
TimeEntryUpdates == [hours : {None, Some(0), Some(2500)}, hourly_rate : {None, Some(1)}]
NoTimeUpdate == [hours |-> None, hourly_rate |-> None]

\* update_time_entry lines 199-204: setattr for each field set, then
\* total_pay from the entry's hours and rate
SetTimeFields(entry, update) ==
    LET hours == IF update.hours = None THEN entry.hours ELSE update.hours[1]
        hourly_rate == IF update.hourly_rate = None THEN entry.hourly_rate
                       ELSE update.hourly_rate[1]
    IN [entry EXCEPT !.hours = hours, !.hourly_rate = hourly_rate,
                     !.total_pay = calculate_total_pay(hours, hourly_rate)]

\* PUT /api/time-entries/{entry_id}
update_time_entry(entry_id, update) ==
    /\ IF ~(entry_id \in 1..Len(time_entries))
       THEN /\ Respond("update_time_entry", <<entry_id>>, HTTP_404)
            /\ UNCHANGED time_entries
       ELSE /\ time_entries' = [time_entries EXCEPT ![entry_id] = SetTimeFields(@, update)]
            /\ Respond("update_time_entry", <<entry_id>>, HTTP_200)
    /\ UNCHANGED <<periods, settlements, expenses, caregivers>>

\* POST /api/time-entries/bulk-update
bulk_update_time_entries(ids, update) ==
    /\ IF ids = {} \/ update = NoTimeUpdate
       THEN UNCHANGED time_entries
       ELSE time_entries' = [i \in 1..Len(time_entries) |->
                                IF i \in ids THEN SetTimeFields(time_entries[i], update)
                                ELSE time_entries[i]]
    /\ Respond("bulk_update_time_entries", <<ids>>, HTTP_200)
    /\ UNCHANGED <<periods, settlements, expenses, caregivers>>

\* the most rows the table holds after a request that stores several
MaxBulkEntries == MaxTimeEntries + 1

\* the entries of a TimeEntryBulkCreate; pay_period_id 0 stands for none given
BulkDates == {0, 2}
BulkEntries ==
    {e \in [caregiver_id : CaregiverIds, pay_period_id : {0, 2}, date : BulkDates,
            hours : Hours, hourly_rate : {3}] :
        ~hours_must_be_positive(e.hours) =>
            e.caregiver_id = 1 /\ e.pay_period_id = 0 /\ e.date = 0}

\* _create_single_entry lines 111-134: the status of the HTTPException it
\* raises for the entry, 0 when it raises none
EntryError(entry) ==
    IF ~(entry.caregiver_id \in 1..Len(caregivers)) THEN HTTP_404
    ELSE IF entry.pay_period_id # 0 /\ ~PeriodExists(entry.pay_period_id) THEN HTTP_404
    ELSE IF entry.pay_period_id = 0 /\ PeriodForDate(entry.date) = 0 THEN HTTP_400
    ELSE 0

\* _create_single_entry lines 136-150: the row added to the session
SingleEntry(entry) ==
    TimeEntry(IF entry.pay_period_id # 0 THEN entry.pay_period_id
              ELSE PeriodForDate(entry.date),
              entry.caregiver_id, entry.hours, entry.hourly_rate)

\* variant: each entry is committed as soon as it is added
RECURSIVE BulkLoop_committing(_, _)
BulkLoop_committing(tes, entries) ==
    IF entries = <<>> THEN [table |-> tes, status |-> HTTP_201]
    ELSE IF EntryError(Head(entries)) # 0
    THEN [table |-> tes, status |-> EntryError(Head(entries))]
    ELSE BulkLoop_committing(Append(tes, SingleEntry(Head(entries))), Tail(entries))
\* create_time_entries_bulk lines 156-161: the rows are added to the session
\* one by one and committed once after the loop; an exception raised for an
\* entry ends the request before the commit, and the session is closed with
\* nothing written
RECURSIVE BulkLoop(_, _)
BulkLoop(tes, entries) ==
    IF entries = <<>> THEN [table |-> tes, status |-> HTTP_201]
    ELSE IF EntryError(Head(entries)) # 0
    THEN [table |-> time_entries, status |-> EntryError(Head(entries))]
    ELSE BulkLoop(Append(tes, SingleEntry(Head(entries))), Tail(entries))

\* POST /api/time-entries/bulk
create_time_entries_bulk(entries) ==
    /\ Len(time_entries) + Len(entries) <= MaxBulkEntries
    /\ IF \E k \in 1..Len(entries) : ~hours_must_be_positive(entries[k].hours)
       THEN /\ Respond("create_time_entries_bulk", <<entries>>, HTTP_422)
            /\ UNCHANGED time_entries
       ELSE /\ time_entries' = BulkLoop(time_entries, entries).table
            /\ Respond("create_time_entries_bulk", <<entries>>,
                       BulkLoop(time_entries, entries).status)
    /\ UNCHANGED <<periods, settlements, expenses, caregivers>>

\* the parsed rows of a time-entry import request: a caregiver by name, a
\* date or none, and hours, rate and total pay as the file gives them
TimeImportRows ==
    [caregiver_name : {"Julia", "Nobody"}, date : {None, Some(0)},
     hours : {50}, hourly_rate : {3}, total_pay : {0}]

\* import_time_entries lines 91, 105: the id of the caregiver of that name
CaregiverIdOf(name) ==
    IF \E i \in 1..Len(caregivers) : caregivers[i].name = name
    THEN Min({i \in 1..Len(caregivers) : caregivers[i].name = name})
    ELSE 0

\* ImportService.import_time_entries, the loop: the time_entries table after
\* the rows of the batch; a row without date, known caregiver or period is
\* reported and skipped, the others are stored with the row's own total_pay
RECURSIVE TimeImportLoop(_, _, _)
TimeImportLoop(tes, batch, default_period_id) ==
    IF batch = <<>> THEN tes
    ELSE TimeImportLoop(
            IF \/ Head(batch).date = None
               \/ CaregiverIdOf(Head(batch).caregiver_name) = 0
               \/ ImportPeriod(Head(batch), default_period_id) = 0
            THEN tes
            ELSE Append(tes,
                    [pay_period_id |-> ImportPeriod(Head(batch), default_period_id),
                     caregiver_id |-> CaregiverIdOf(Head(batch).caregiver_name),
                     hours |-> Head(batch).hours,
                     hourly_rate |-> Head(batch).hourly_rate,
                     total_pay |-> Head(batch).total_pay]),
            Tail(batch), default_period_id)

\* POST /api/import/time-entries; default_period_id 0 stands for none given
import_time_entries(batch, default_period_id) ==
    /\ Len(TimeImportLoop(time_entries, batch, default_period_id)) <= MaxBulkEntries
    /\ time_entries' = TimeImportLoop(time_entries, batch, default_period_id)
    /\ Respond("import_time_entries", <<default_period_id>>, HTTP_200)
    /\ UNCHANGED <<periods, settlements, expenses, caregivers>>

\* ----------------------------------------------- settlement calculator
\* sum(e.amount for e in expenses) over one period's rows, whoever paid
RECURSIVE SumAllAmounts(_, _)
SumAllAmounts(es, period_id) ==
    IF es = <<>> THEN 0
    ELSE (IF Head(es).pay_period_id = period_id THEN Head(es).amount ELSE 0)
         + SumAllAmounts(Tail(es), period_id)

\* sum(e.amount for e in expenses if e.paid_by == <payer>) over one period's rows
RECURSIVE SumAmounts(_, _, _)
SumAmounts(es, period_id, payers) ==
    IF es = <<>> THEN 0
    ELSE (IF Head(es).pay_period_id = period_id /\ Head(es).paid_by \in payers
          THEN Head(es).amount ELSE 0) + SumAmounts(Tail(es), period_id, payers)

\* Decimal.quantize(Decimal("0.01")) under the default context, whose rounding
\* is ROUND_HALF_EVEN.  The argument is in half cents, the result in cents.
quantize(half_cents) ==
    LET q == half_cents \div 2
    IN IF half_cents % 2 = 0 THEN q
       ELSE IF q % 2 = 0 THEN q ELSE q + 1

\* sum(e.total_pay for e in time_entries) over one period's rows
RECURSIVE SumTotalPay(_, _)
SumTotalPay(ts, period_id) ==
    IF ts = <<>> THEN 0
    ELSE (IF Head(ts).pay_period_id = period_id THEN Head(ts).total_pay ELSE 0)
         + SumTotalPay(Tail(ts), period_id)

\* lines 37-49: the fair share and who owes whom.  fair_share = total_cost / 2
\* is exact; it is compared and subtracted in half cents, so settlement_amount
\* here is the unrounded amount in half cents.
\* variant: the second branch subtracts the fair share from what Adi paid
DetermineSettlement_wrong_payer(total_cost, adi_paid, rafi_paid) ==
    IF 2 * adi_paid > total_cost
    THEN [settlement_amount |-> 2 * adi_paid - total_cost, direction |-> RAFI_OWES_ADI]
    ELSE IF 2 * rafi_paid > total_cost
    THEN [settlement_amount |-> 2 * adi_paid - total_cost, direction |-> ADI_OWES_RAFI]
    ELSE [settlement_amount |-> 0, direction |-> EVEN]
\* variant: Rafi's excess is taken over what Adi paid, not over the fair share
DetermineSettlement_lopsided(total_cost, adi_paid, rafi_paid) ==
    IF 2 * adi_paid > total_cost
    THEN [settlement_amount |-> 2 * adi_paid - total_cost, direction |-> RAFI_OWES_ADI]
    ELSE IF 2 * rafi_paid > total_cost
    THEN [settlement_amount |-> 2 * (rafi_paid - adi_paid), direction |-> ADI_OWES_RAFI]
    ELSE [settlement_amount |-> 0, direction |-> EVEN]
\* variant: the comparisons are >= where the code has >
DetermineSettlement_at_least(total_cost, adi_paid, rafi_paid) ==
    IF 2 * adi_paid >= total_cost
    THEN [settlement_amount |-> 2 * adi_paid - total_cost, direction |-> RAFI_OWES_ADI]
    ELSE IF 2 * rafi_paid >= total_cost
    THEN [settlement_amount |-> 2 * rafi_paid - total_cost, direction |-> ADI_OWES_RAFI]
    ELSE [settlement_amount |-> 0, direction |-> EVEN]
DetermineSettlement(total_cost, adi_paid, rafi_paid) ==
    IF 2 * adi_paid > total_cost
    THEN [settlement_amount |-> 2 * adi_paid - total_cost, direction |-> RAFI_OWES_ADI]
    ELSE IF 2 * rafi_paid > total_cost
    THEN [settlement_amount |-> 2 * rafi_paid - total_cost, direction |-> ADI_OWES_RAFI]
    ELSE [settlement_amount |-> 0, direction |-> EVEN]

\* lines 28-52: the totals and the rounded balancing amount
\* variant: the caregiver cost of the time entries is added to the total cost
Totals_with_caregiver_cost(ts, es, period_id) ==
    LET total_expenses == SumAllAmounts(es, period_id)
        adi_paid == SumAmounts(es, period_id, {ADI})
        rafi_paid == SumAmounts(es, period_id, {RAFI})
        owed == DetermineSettlement(total_expenses + SumTotalPay(ts, period_id),
                                    adi_paid, rafi_paid)
    IN [total_caregiver_cost |-> SumTotalPay(ts, period_id),
        total_expenses |-> total_expenses,
        adi_paid |-> adi_paid,
        rafi_paid |-> rafi_paid,
        settlement_amount |-> quantize(owed.settlement_amount),
        settlement_direction |-> owed.direction]
Totals(ts, es, period_id) ==
    LET total_expenses == SumAllAmounts(es, period_id)
        adi_paid == SumAmounts(es, period_id, {ADI})
        rafi_paid == SumAmounts(es, period_id, {RAFI})
        owed == DetermineSettlement(total_expenses, adi_paid, rafi_paid)
    IN [total_caregiver_cost |-> SumTotalPay(ts, period_id),
        total_expenses |-> total_expenses,
        adi_paid |-> adi_paid,
        rafi_paid |-> rafi_paid,
        settlement_amount |-> quantize(owed.settlement_amount),
        settlement_direction |-> owed.direction]

\* lines 72-83: the row inserted for a period that has none
\* variant: final_amount is left at zero
NewSettlement_without_final(period_id, t) ==
    [pay_period_id |-> period_id,
     total_caregiver_cost |-> t.total_caregiver_cost,
     total_expenses |-> t.total_expenses,
     adi_paid |-> t.adi_paid,
     rafi_paid |-> t.rafi_paid,
     settlement_amount |-> t.settlement_amount,
     settlement_direction |-> t.settlement_direction,
     carryover_amount |-> 0,
     final_amount |-> 0,
     settled |-> FALSE,
     settled_at |-> None,
     payment_method |-> None]
NewSettlement(period_id, t) ==
    [pay_period_id |-> period_id,
     total_caregiver_cost |-> t.total_caregiver_cost,
     total_expenses |-> t.total_expenses,
     adi_paid |-> t.adi_paid,
     rafi_paid |-> t.rafi_paid,
     settlement_amount |-> t.settlement_amount,
     settlement_direction |-> t.settlement_direction,
     carryover_amount |-> 0,
     final_amount |-> t.settlement_amount,
     settled |-> FALSE,
     settled_at |-> None,
     payment_method |-> None]

\* lines 59-67: the assignments to the existing row, as loaded by the session
\* variant: final_amount is not assigned
UpdatedSettlement_stale_final(existing, t) ==
    [existing EXCEPT
        !.total_caregiver_cost = t.total_caregiver_cost,
        !.total_expenses = t.total_expenses,
        !.adi_paid = t.adi_paid,
        !.rafi_paid = t.rafi_paid,
        !.settlement_amount = t.settlement_amount,
        !.settlement_direction = t.settlement_direction]
\* variant: final_amount is added to, where the code assigns it
UpdatedSettlement_accumulating(existing, t) ==
    [existing EXCEPT
        !.total_caregiver_cost = t.total_caregiver_cost,
        !.total_expenses = t.total_expenses,
        !.adi_paid = t.adi_paid,
        !.rafi_paid = t.rafi_paid,
        !.settlement_amount = t.settlement_amount,
        !.settlement_direction = t.settlement_direction,
        !.final_amount = t.settlement_amount + existing.final_amount]
\* variant: the recalculation also clears the settled flag and its timestamp
UpdatedSettlement_resetting(existing, t) ==
    [existing EXCEPT
        !.total_caregiver_cost = t.total_caregiver_cost,
        !.total_expenses = t.total_expenses,
        !.adi_paid = t.adi_paid,
        !.rafi_paid = t.rafi_paid,
        !.settlement_amount = t.settlement_amount,
        !.settlement_direction = t.settlement_direction,
        !.final_amount = t.settlement_amount + existing.carryover_amount,
        !.settled = FALSE,
        !.settled_at = None]
UpdatedSettlement(existing, t) ==
    [existing EXCEPT
        !.total_caregiver_cost = t.total_caregiver_cost,
        !.total_expenses = t.total_expenses,
        !.adi_paid = t.adi_paid,
        !.rafi_paid = t.rafi_paid,
        !.settlement_amount = t.settlement_amount,
        !.settlement_direction = t.settlement_direction,
        !.final_amount = t.settlement_amount + existing.carryover_amount]

\* Settlement.pay_period_id is unique: an INSERT for a period that already
\* has a row is rejected by the store
\* variant: the column is declared without unique=True
UniqueViolation_never(ss, period_id) == FALSE
UniqueViolation(ss, period_id) == SettlementsOf(ss, period_id) # {}

\* Session.commit() of a modified row: the UPDATE carries the columns whose
\* value differs from the value the session loaded, and addresses the row by id
Flush(ss, id, loaded, modified) ==
    [ss EXCEPT ![id] = [f \in DOMAIN loaded |->
                           IF modified[f] # loaded[f] THEN modified[f] ELSE ss[id][f]]]

\* calculate_settlement lines 18-57: what the queries return
CalcRead(ss, ts, es, period_id) ==
    [period_id |-> period_id,
     totals |-> Totals(ts, es, period_id),
     existing |-> FirstSettlement(ss, period_id),
     loaded |-> IF FirstSettlement(ss, period_id) = 0 THEN None
                ELSE Some(ss[FirstSettlement(ss, period_id)])]

\* calculate_settlement lines 59-87: the write and its commit; ok is FALSE
\* when the store rejects the INSERT (IntegrityError)
CalcCommit(ss, plan) ==
    IF plan.existing # 0
    THEN [ok |-> TRUE,
          table |-> Flush(ss, plan.existing, plan.loaded[1],
                          UpdatedSettlement(plan.loaded[1], plan.totals))]
    ELSE IF UniqueViolation(ss, plan.period_id)
    THEN [ok |-> FALSE, table |-> ss]
    ELSE [ok |-> TRUE, table |-> Append(ss, NewSettlement(plan.period_id, plan.totals))]

\* calculate_settlement(db, period_id) run without interruption: the
\* settlements table it leaves
calculate_settlement(ss, ts, es, period_id) ==
    CalcCommit(ss, CalcRead(ss, ts, es, period_id)).table

\* mark_settled lines 63-67: the three assignments and the commit
\* variant: a request without a method keeps the stored one
MarkCommit_keeping_method(ss, id, loaded, payment_method, now) ==
    Flush(ss, id, loaded, [loaded EXCEPT !.settled = TRUE,
                                         !.settled_at = Some(now),
                                         !.payment_method =
                                             IF payment_method = None
                                             THEN loaded.payment_method
                                             ELSE payment_method])
MarkCommit(ss, id, loaded, payment_method, now) ==
    Flush(ss, id, loaded, [loaded EXCEPT !.settled = TRUE,
                                         !.settled_at = Some(now),
                                         !.payment_method = payment_method])

\* ------------------------------------------ settlement record lifecycle
\* GET /api/settlements/{period_id}
get_settlement(period_id) ==
    /\ IF ~PeriodExists(period_id)
       THEN /\ Respond("get_settlement", <<period_id>>, HTTP_404)
            /\ UNCHANGED settlements
       ELSE /\ settlements' = calculate_settlement(settlements, time_entries, expenses, period_id)
            /\ Respond("get_settlement", <<period_id>>, HTTP_200)
    /\ UNCHANGED <<periods, expenses, time_entries, caregivers>>

\* POST /api/settlements/{period_id}/calculate
recalculate_settlement(period_id) ==
    /\ IF ~PeriodExists(period_id)
       THEN /\ Respond("recalculate_settlement", <<period_id>>, HTTP_404)
            /\ UNCHANGED settlements
       ELSE /\ settlements' = calculate_settlement(settlements, time_entries, expenses, period_id)
            /\ Respond("recalculate_settlement", <<period_id>>, HTTP_200)
    /\ UNCHANGED <<periods, expenses, time_entries, caregivers>>

\* POST /api/settlements/{period_id}/mark-settled
\* variant: the settlement is recomputed on every call
mark_settled_recalculating(period_id, payment_method, now) ==
    /\ IF ~PeriodExists(period_id)
       THEN /\ Respond("mark_settled", <<period_id, payment_method>>, HTTP_404)
            /\ UNCHANGED settlements
       ELSE LET ss == calculate_settlement(settlements, time_entries, expenses, period_id)
                k == FirstSettlement(ss, period_id)
            IN /\ settlements' = MarkCommit(ss, k, ss[k], payment_method, now)
               /\ Respond("mark_settled", <<period_id, payment_method>>, HTTP_200)
    /\ UNCHANGED <<periods, expenses, time_entries, caregivers>>
\* variant: the period is not looked up
mark_settled_unchecked(period_id, payment_method, now) ==
    /\ LET ss == IF FirstSettlement(settlements, period_id) = 0
                 THEN calculate_settlement(settlements, time_entries, expenses, period_id)
                 ELSE settlements
           k == FirstSettlement(ss, period_id)
       IN /\ settlements' = MarkCommit(ss, k, ss[k], payment_method, now)
          /\ Respond("mark_settled", <<period_id, payment_method>>, HTTP_200)
    /\ UNCHANGED <<periods, expenses, time_entries, caregivers>>
mark_settled(period_id, payment_method, now) ==
    /\ IF ~PeriodExists(period_id)
       THEN /\ Respond("mark_settled", <<period_id, payment_method>>, HTTP_404)
            /\ UNCHANGED settlements
       ELSE LET ss == IF FirstSettlement(settlements, period_id) = 0
                      THEN calculate_settlement(settlements, time_entries, expenses, period_id)
                      ELSE settlements
                k == FirstSettlement(ss, period_id)
            IN /\ settlements' = MarkCommit(ss, k, ss[k], payment_method, now)
               /\ Respond("mark_settled", <<period_id, payment_method>>, HTTP_200)
    /\ UNCHANGED <<periods, expenses, time_entries, caregivers>>

\* POST /api/settlements/{period_id}/unsettle
\* variant: the timestamp is kept
unsettle_keeping_timestamp(period_id) ==
    /\ IF ~PeriodExists(period_id)
       THEN /\ Respond("unsettle", <<period_id>>, HTTP_404)
            /\ UNCHANGED settlements
       ELSE IF FirstSettlement(settlements, period_id) = 0
       THEN /\ Respond("unsettle", <<period_id>>, HTTP_404)
            /\ UNCHANGED settlements
       ELSE IF ~settlements[FirstSettlement(settlements, period_id)].settled
       THEN /\ Respond("unsettle", <<period_id>>, HTTP_400)
            /\ UNCHANGED settlements
       ELSE /\ settlements' =
                  [settlements EXCEPT
                      ![FirstSettlement(settlements, period_id)].settled = FALSE]
            /\ Respond("unsettle", <<period_id>>, HTTP_200)
    /\ UNCHANGED <<periods, expenses, time_entries, caregivers>>
\* variant: the payment method is cleared as well
unsettle_clearing_method(period_id) ==
    /\ IF ~PeriodExists(period_id)
       THEN /\ Respond("unsettle", <<period_id>>, HTTP_404)
            /\ UNCHANGED settlements
       ELSE IF FirstSettlement(settlements, period_id) = 0
       THEN /\ Respond("unsettle", <<period_id>>, HTTP_404)
            /\ UNCHANGED settlements
       ELSE IF ~settlements[FirstSettlement(settlements, period_id)].settled
       THEN /\ Respond("unsettle", <<period_id>>, HTTP_400)
            /\ UNCHANGED settlements
       ELSE /\ settlements' =
                  [settlements EXCEPT
                      ![FirstSettlement(settlements, period_id)].settled = FALSE,
                      ![FirstSettlement(settlements, period_id)].settled_at = None,
                      ![FirstSettlement(settlements, period_id)].payment_method = None]
            /\ Respond("unsettle", <<period_id>>, HTTP_200)
    /\ UNCHANGED <<periods, expenses, time_entries, caregivers>>
\* variant: no check that the settlement is settled
unsettle_unchecked(period_id) ==
    /\ IF ~PeriodExists(period_id)
       THEN /\ Respond("unsettle", <<period_id>>, HTTP_404)
            /\ UNCHANGED settlements
       ELSE IF FirstSettlement(settlements, period_id) = 0
       THEN /\ Respond("unsettle", <<period_id>>, HTTP_404)
            /\ UNCHANGED settlements
       ELSE /\ settlements' =
                  [settlements EXCEPT
                      ![FirstSettlement(settlements, period_id)].settled = FALSE,
                      ![FirstSettlement(settlements, period_id)].settled_at = None]
            /\ Respond("unsettle", <<period_id>>, HTTP_200)
    /\ UNCHANGED <<periods, expenses, time_entries, caregivers>>
unsettle(period_id) ==
    /\ IF ~PeriodExists(period_id)
       THEN /\ Respond("unsettle", <<period_id>>, HTTP_404)
            /\ UNCHANGED settlements
       ELSE IF FirstSettlement(settlements, period_id) = 0
       THEN /\ Respond("unsettle", <<period_id>>, HTTP_404)
            /\ UNCHANGED settlements
       ELSE IF ~settlements[FirstSettlement(settlements, period_id)].settled
       THEN /\ Respond("unsettle", <<period_id>>, HTTP_400)
            /\ UNCHANGED settlements
       ELSE /\ settlements' =
                  [settlements EXCEPT
                      ![FirstSettlement(settlements, period_id)].settled = FALSE,
                      ![FirstSettlement(settlements, period_id)].settled_at = None]
            /\ Respond("unsettle", <<period_id>>, HTTP_200)
    /\ UNCHANGED <<periods, expenses, time_entries, caregivers>>

\* ------------------------------------------- requests served in parallel
\* Each request runs in a worker thread with its own session; a query sees
\* what is committed when it runs, and a commit is one atomic write.

\* get_settlement / recalculate_settlement up to the queries of
\* calculate_settlement
BeginCalculate(w, op, period_id) ==
    /\ op \in {"get_settlement", "recalculate_settlement"}
    /\ FirstIdle(w)
    /\ Accept
    /\ IF ~PeriodExists(period_id)
       THEN /\ last' = Request(op, <<period_id>>, HTTP_404)
            /\ UNCHANGED sessions
       ELSE /\ sessions' = [sessions EXCEPT ![w] =
                  [pc |-> "calc_commit", op |-> op, args |-> <<period_id>>,
                   plan |-> CalcRead(settlements, time_entries, expenses, period_id)]]
            /\ UNCHANGED last
    /\ UNCHANGED <<periods, settlements, expenses, time_entries, caregivers>>

\* mark_settled up to its query for the settlement (lines 48-57)
BeginMarkSettled(w, period_id, payment_method) ==
    /\ FirstIdle(w)
    /\ Accept
    /\ IF ~PeriodExists(period_id)
       THEN /\ last' = Request("mark_settled", <<period_id, payment_method>>, HTTP_404)
            /\ UNCHANGED sessions
       ELSE /\ sessions' = [sessions EXCEPT ![w] =
                  IF FirstSettlement(settlements, period_id) = 0
                  THEN [pc |-> "calc_read", op |-> "mark_settled",
                        args |-> <<period_id, payment_method>>]
                  ELSE [pc |-> "mark_commit", op |-> "mark_settled",
                        args |-> <<period_id, payment_method>>,
                        id |-> FirstSettlement(settlements, period_id),
                        loaded |-> settlements[FirstSettlement(settlements, period_id)]]]
            /\ UNCHANGED last
    /\ UNCHANGED <<periods, settlements, expenses, time_entries, caregivers>>

\* mark_settled line 61: the queries of calculate_settlement
MarkCalculateRead(w) ==
    /\ sessions[w].pc = "calc_read"
    /\ sessions' = [sessions EXCEPT ![w] =
          [pc |-> "calc_commit", op |-> sessions[w].op, args |-> sessions[w].args,
           plan |-> CalcRead(settlements, time_entries, expenses, sessions[w].args[1])]]
    /\ UNCHANGED <<served, periods, settlements, expenses, time_entries, caregivers, last>>

\* calculate_settlement lines 59-87: write, commit, refresh
CommitCalculate(w) ==
    /\ sessions[w].pc = "calc_commit"
    /\ LET res == CalcCommit(settlements, sessions[w].plan)
           id == IF sessions[w].plan.existing # 0 THEN sessions[w].plan.existing
                 ELSE Len(res.table)
       IN /\ settlements' = res.table
          /\ IF ~res.ok
             THEN /\ sessions' = [sessions EXCEPT ![w] = Idle]
                  /\ last' = Request(sessions[w].op, sessions[w].args, HTTP_500)
             ELSE IF sessions[w].op = "mark_settled"
             THEN /\ sessions' = [sessions EXCEPT ![w] =
                        [pc |-> "mark_commit", op |-> sessions[w].op,
                         args |-> sessions[w].args,
                         id |-> id, loaded |-> res.table[id]]]
                  /\ UNCHANGED last
             ELSE /\ sessions' = [sessions EXCEPT ![w] = Idle]
                  /\ last' = Request(sessions[w].op, sessions[w].args, HTTP_200)
    /\ UNCHANGED <<served, periods, expenses, time_entries, caregivers>>

\* mark_settled lines 63-69
CommitMarkSettled(w, now) ==
    /\ sessions[w].pc = "mark_commit"
    /\ settlements' = MarkCommit(settlements, sessions[w].id, sessions[w].loaded,
                                 sessions[w].args[2], now)
    /\ sessions' = [sessions EXCEPT ![w] = Idle]
    /\ last' = Request("mark_settled", sessions[w].args, HTTP_200)
    /\ UNCHANGED <<served, periods, expenses, time_entries, caregivers>>

\* create_pay_period lines 32-41, served by worker w: the validator and the
\* query for an open period; the session holds no lock between this query
\* and its commit
BeginCreate(w, start_date, end_date) ==
    /\ FirstIdle(w)
    /\ Len(periods) + Cardinality({v \in Workers : sessions[v].pc = "create_commit"})
          < MaxPeriods
    /\ Accept
    /\ IF ~end_date_must_be_after_start(start_date, end_date)
       THEN /\ last' = Request("create_pay_period", <<start_date, end_date>>, HTTP_422)
            /\ UNCHANGED sessions
       ELSE IF existing_open(periods)
       THEN /\ last' = Request("create_pay_period", <<start_date, end_date>>, HTTP_400)
            /\ UNCHANGED sessions
       ELSE /\ sessions' = [sessions EXCEPT ![w] =
                  [pc |-> "create_commit", op |-> "create_pay_period",
                   args |-> <<start_date, end_date>>]]
            /\ UNCHANGED last
    /\ UNCHANGED <<periods, settlements, expenses, time_entries, caregivers>>

\* create_pay_period lines 43-52: insert, commit, refresh
CommitCreate(w) ==
    /\ sessions[w].pc = "create_commit"
    /\ periods' = Append(periods,
                         PayPeriod(sessions[w].args[1], sessions[w].args[2], OPEN, FALSE))
    /\ sessions' = [sessions EXCEPT ![w] = Idle]
    /\ last' = Request("create_pay_period", sessions[w].args, HTTP_201)
    /\ UNCHANGED <<served, settlements, expenses, time_entries, caregivers>>

\* the period lengths of a generation request: no validator restricts them
GenLengths == {-1, 0, 1, 2}
\* date.min: date arithmetic below it raises OverflowError
DateMin == 0 - 2

\* POST /api/import/generate-periods served step by step; the handler is an
\* async def whose loop never awaits, so the one event-loop thread runs it
\* and no other request is taken up before it returns.  Lines 262-264: the
\* loop starts at start_date on the rows of the table
BeginGenerate(w, start_date, end_date, period_length_days, today) ==
    /\ w = 1
    /\ sessions[w] = Idle
    /\ IF period_length_days > 0
       THEN Len(GenerateLoop(periods, start_date, end_date, period_length_days, today))
                <= MaxPeriods
       ELSE period_length_days = 0 => Len(periods) < MaxPeriods
    /\ Accept
    /\ sessions' = [sessions EXCEPT ![w] =
          [pc |-> "generate_loop", op |-> "generate_pay_periods",
           args |-> <<start_date, end_date, period_length_days, today>>,
           current_start |-> start_date, table |-> periods]]
    /\ UNCHANGED <<periods, settlements, expenses, time_entries, caregivers, last>>

\* one test of the while condition: an iteration of the loop (lines 266-308;
\* a new row is flushed, so the next iteration's query sees it), or the
\* commit after it (line 310).  An iteration that finds the row existing and
\* leaves current_start where it was changes nothing at all.
GenerateStep(w) ==
    /\ sessions[w].pc = "generate_loop"
    /\ LET end_date == sessions[w].args[2]
           period_length_days == sessions[w].args[3]
           today == sessions[w].args[4]
           current_start == sessions[w].current_start
           current_end == current_start + period_length_days - 1
           ps == sessions[w].table
           existing == \E i \in 1..Len(ps) :
                          /\ ps[i].start_date = current_start
                          /\ ps[i].end_date = current_end
           is_historical == current_end < today
           period == PayPeriod(current_start, current_end,
                               GeneratedStatus(is_historical), is_historical)
       IN IF ~(current_start <= end_date)
          THEN /\ periods' = ps
               /\ sessions' = [sessions EXCEPT ![w] = Idle]
               /\ last' = Request("generate_pay_periods", sessions[w].args, HTTP_200)
          ELSE IF current_end < DateMin
          THEN /\ UNCHANGED periods
               /\ sessions' = [sessions EXCEPT ![w] = Idle]
               /\ last' = Request("generate_pay_periods", sessions[w].args, HTTP_500)
          ELSE /\ sessions' = [sessions EXCEPT
                     ![w].table = IF existing THEN ps ELSE Append(ps, period),
                     ![w].current_start = current_end + 1]
               /\ UNCHANGED <<periods, last>>
    /\ UNCHANGED <<served, settlements, expenses, time_entries, caregivers>>

\* ------------------------------------------------------ specifications
\* The core: the pay-period lifecycle and the settlement record lifecycle
Next ==
    \/ \E s \in Dates, e \in Dates : create_pay_period(s, e)
    \/ \E p \in PeriodIds : close_pay_period(p)
    \/ \E p \in PeriodIds : reopen_pay_period(p)
    \/ \E p \in {0} \cup PeriodIds, d \in Dates, a \in Amounts, b \in Payers,
          c \in Categories : create_expense(p, d, a, b, c)
    \/ \E n \in CaregiverNames : create_caregiver(n)
    \/ \E c \in CaregiverIds, p \in {0} \cup PeriodIds, d \in Dates, h \in Hours, r \in Rates :
          create_time_entry(c, p, d, h, r)
    \/ \E p \in PeriodIds : get_settlement(p)
    \/ \E p \in PeriodIds : recalculate_settlement(p)
    \/ \E p \in PeriodIds, m \in PaymentMethods, t \in Times : mark_settled(p, m, t)
    \/ \E p \in PeriodIds : unsettle(p)

Spec == Init /\ [][Next]_vars

\* The period operations alone, bulk generation included
PeriodNext ==
    \/ \E s \in Dates, e \in Dates : create_pay_period(s, e)
    \/ \E p \in PeriodIds : close_pay_period(p)
    \/ \E p \in PeriodIds : reopen_pay_period(p)
    \/ \E s \in Dates, e \in Dates, n \in PeriodLengths, t \in Dates :
          generate_pay_periods(s, e, n, t)

PeriodSpec == Init /\ [][PeriodNext]_vars

\* The settlement requests served in parallel by the worker threads, over
\* periods and expenses entered by valid requests
ConcNext ==
    \/ \E s \in Dates, e \in Dates : e > s /\ create_pay_period(s, e)
    \/ \E p \in PeriodIds, d \in Dates, a \in Amounts, b \in Payers :
          PeriodExists(p) /\ create_expense(p, d, a, b, CATEGORY_OTHER)
    \/ \E w \in Workers, p \in PeriodIds : BeginCalculate(w, "get_settlement", p)
    \/ \E w \in Workers, p \in PeriodIds : BeginCalculate(w, "recalculate_settlement", p)
    \/ \E w \in Workers, p \in PeriodIds, m \in PaymentMethods : BeginMarkSettled(w, p, m)
    \/ \E w \in Workers : MarkCalculateRead(w)
    \/ \E w \in Workers : CommitCalculate(w)
    \/ \E w \in Workers, t \in Times : CommitMarkSettled(w, t)

ConcSpec == Init /\ [][ConcNext]_vars

\* The create requests served in parallel by the worker threads
CreateNext ==
    \/ \E w \in Workers, s \in Dates, e \in Dates : BeginCreate(w, s, e)
    \/ \E w \in Workers : CommitCreate(w)
    \/ \E p \in PeriodIds : close_pay_period(p)

CreateSpec == Init /\ [][CreateNext]_vars

\* The bulk generation run iteration by iteration, between period requests
GenerateNext ==
    \/ \E s \in Dates, e \in Dates, n \in GenLengths, t \in Dates :
          BeginGenerate(1, s, e, n, t)
    \/ GenerateStep(1)
    \/ \E s \in Dates, e \in Dates :
          sessions[1] = Idle /\ e > s /\ create_pay_period(s, e)
    \/ \E p \in PeriodIds : sessions[1] = Idle /\ close_pay_period(p)

GenerateSpec == Init /\ [][GenerateNext]_vars

\* the thread that runs the loop keeps running it
GenerateLive == GenerateSpec /\ WF_vars(GenerateStep(1))

\* The period operations, the edit of the notes included, among the requests
\* that enter expenses and hours and run the settlement
StatusNext ==
    \/ \E s \in Dates, e \in Dates : e > s /\ create_pay_period(s, e)
    \/ \E p \in PeriodIds : close_pay_period(p)
    \/ \E p \in PeriodIds : reopen_pay_period(p)
    \/ \E p \in PeriodIds, n \in NotesUpdates : update_pay_period(p, n)
    \/ \E e \in Dates, n \in PeriodLengths, t \in Dates :
          generate_pay_periods(0, e, n, t)
    \/ \E p \in PeriodIds : PeriodExists(p) /\ create_expense(p, 0, 1, ADI, CATEGORY_OTHER)
    \/ \E n \in CaregiverNames : create_caregiver(n)
    \/ \E p \in PeriodIds : PeriodExists(p) /\ create_time_entry(1, p, 0, 50, 1)
    \/ \E p \in PeriodIds : PeriodExists(p) /\ get_settlement(p)
    \/ \E p \in PeriodIds : PeriodExists(p) /\ recalculate_settlement(p)
    \/ \E p \in PeriodIds, t \in Times : PeriodExists(p) /\ mark_settled(p, None, t)
    \/ \E p \in PeriodIds : PeriodExists(p) /\ unsettle(p)

StatusSpec == Init /\ [][StatusNext]_vars

\* The settlement record lifecycle alone, over one period and the expenses
\* and time entries entered for it by valid requests
SettleNext ==
    \/ \E s \in Dates, e \in Dates : e > s /\ create_pay_period(s, e)
    \/ \E p \in PeriodIds, d \in Dates, a \in Amounts, b \in Payers :
          PeriodExists(p) /\ create_expense(p, d, a, b, CATEGORY_OTHER)
    \/ \E n \in CaregiverNames : create_caregiver(n)
    \/ \E c \in CaregiverIds, p \in PeriodIds, d \in Dates, h \in Hours, r \in Rates :
          /\ c \in 1..Len(caregivers) /\ PeriodExists(p) /\ hours_must_be_positive(h)
          /\ create_time_entry(c, p, d, h, r)
    \/ \E p \in PeriodIds : get_settlement(p)
    \/ \E p \in PeriodIds : recalculate_settlement(p)
    \/ \E p \in PeriodIds, m \in PaymentMethods, t \in Times : mark_settled(p, m, t)
    \/ \E p \in PeriodIds : unsettle(p)

SettleSpec == Init /\ [][SettleNext]_vars

\* The calculator applied to a period with any expenses entered before: one
\* OPEN period, and up to MaxCalcExpenses expenses created for it
ExpenseRows == {Expense(1, a, b, CATEGORY_OTHER) : a \in Amounts, b \in Payers}

CalcInit ==
    /\ served = 0
    /\ periods = <<PayPeriod(0, 1, OPEN, FALSE)>>
    /\ settlements = <<>>
    /\ expenses \in UNION {[1..n -> ExpenseRows] : n \in 0..MaxCalcExpenses}
    /\ time_entries = <<>>
    /\ caregivers = <<>>
    /\ sessions = [w \in Workers |-> Idle]
    /\ last = [op |-> "startup", args |-> <<>>, status |-> HTTP_200, prev |-> None]

CalcNext ==
    \/ \E p \in PeriodIds, d \in Dates, a \in Amounts, b \in Payers :
          PeriodExists(p) /\ create_expense(p, d, a, b, CATEGORY_OTHER)
    \/ \E p \in PeriodIds : get_settlement(p)
    \/ \E p \in PeriodIds : recalculate_settlement(p)

CalcSpec == CalcInit /\ [][CalcNext]_vars

\* The calculator over the expenses the expense operations can leave: created,
\* updated, bulk-updated and imported
LedgerNext ==
    \/ \E s \in Dates, e \in Dates : e > s /\ create_pay_period(s, e)
    \/ \E p \in PeriodIds, d \in Dates, a \in Amounts, b \in Payers :
          PeriodExists(p) /\ create_expense(p, d, a, b, CATEGORY_OTHER)
    \/ \E i \in 1..2, u \in ExpenseUpdates : update_expense(i, u)
    \/ \E ids \in SUBSET (1..2), u \in ExpenseUpdates : bulk_update_expenses(ids, u)
    \/ \E n \in 1..2, d \in {0, 1} :
          \E batch \in [1..n -> ImportRows] : import_expenses(batch, d)
    \/ \E p \in PeriodIds : get_settlement(p)
    \/ \E p \in PeriodIds : recalculate_settlement(p)

LedgerSpec == Init /\ [][LedgerNext]_vars

\* The calculator applied to a period with time entries as well: one OPEN
\* period, one caregiver, at most one time entry and up to MaxExpenses
\* expenses of either category
CareInit ==
    /\ served = 0
    /\ periods = <<PayPeriod(0, 1, OPEN, FALSE)>>
    /\ settlements = <<>>
    /\ expenses \in UNION {[1..n -> {Expense(1, a, b, c) :
                                      a \in Amounts, b \in Payers, c \in Categories}] :
                            n \in 0..MaxExpenses}
    /\ time_entries \in {<<>>} \cup {<<TimeEntry(1, 1, h, r)>> :
                                        h \in {x \in Hours : hours_must_be_positive(x)},
                                        r \in Rates}
    /\ caregivers = <<[name |-> "Julia"]>>
    /\ sessions = [w \in Workers |-> Idle]
    /\ last = [op |-> "startup", args |-> <<>>, status |-> HTTP_200, prev |-> None]

CareNext ==
    \/ \E p \in PeriodIds, h \in Hours, r \in Rates :
          PeriodExists(p) /\ hours_must_be_positive(h) /\ create_time_entry(1, p, 0, h, r)
    \/ \E p \in PeriodIds : get_settlement(p)
    \/ \E p \in PeriodIds : recalculate_settlement(p)

CareSpec == CareInit /\ [][CareNext]_vars

\* The time-entry requests, over one period and one caregiver
TimeInit ==
    /\ served = 0
    /\ periods = <<PayPeriod(0, 1, OPEN, FALSE)>>
    /\ settlements = <<>>
    /\ expenses = <<>>
    /\ time_entries = <<>>
    /\ caregivers = <<[name |-> "Julia"]>>
    /\ sessions = [w \in Workers |-> Idle]
    /\ last = [op |-> "startup", args |-> <<>>, status |-> HTTP_200, prev |-> None]

TimeNext ==
    \/ \E c \in CaregiverIds, p \in {0, 1, 2}, d \in BulkDates, h \in Hours :
          create_time_entry(c, p, d, h, 3)
    \/ \E i \in 1..MaxBulkEntries, u \in TimeEntryUpdates : update_time_entry(i, u)
    \/ \E ids \in SUBSET (1..MaxBulkEntries), u \in TimeEntryUpdates :
          bulk_update_time_entries(ids, u)
    \/ \E n \in 1..2 : \E entries \in [1..n -> BulkEntries] :
          create_time_entries_bulk(entries)
    \/ \E n \in 1..2, d \in {0, 1} :
          \E batch \in [1..n -> TimeImportRows] : import_time_entries(batch, d)

TimeSpec == TimeInit /\ [][TimeNext]_vars

\* ------------------------------------------------------------ properties
\* the tables of the store
Store == <<periods, settlements, expenses, time_entries, caregivers>>

\* this step serves a request of handler op from start to end
Serves(op) == served' = served + 1 /\ last'.op = op

\* C1: in every reachable state, after any sequence of Create, Close, Reopen
\* and bulk period generation, the number of OPEN pay periods is 0 or 1.
C1_AtMostOneOpen == Cardinality(OpenPeriods(periods)) <= 1

C3_Create ==
    [][Serves("create_pay_period") =>
        LET start_date == last'.args[1]
            end_date == last'.args[2]
        IN /\ OpenPeriods(periods) # {} =>
                /\ periods' = periods
                /\ last'.status # HTTP_201
                /\ end_date > start_date => last'.status = HTTP_400
           /\ (OpenPeriods(periods) = {} /\ end_date > start_date) =>
                /\ last'.status = HTTP_201
                /\ Len(periods') = Len(periods) + 1
                /\ SubSeq(periods', 1, Len(periods)) = periods
                /\ periods'[Len(periods')].status = OPEN
                /\ periods'[Len(periods')].start_date = start_date
                /\ periods'[Len(periods')].end_date = end_date]_vars

\* a valid Create was refused because a period is OPEN
C3_Witness ==
    /\ last.op = "create_pay_period"
    /\ last.status = HTTP_400
    /\ last.args[2] > last.args[1]
    /\ OpenPeriods(periods) # {}

\* C4: Create with end date <= start date fails with a validation error and
\* the store is unchanged.
C4_CreateValidation ==
    [][(Serves("create_pay_period") /\ last'.args[2] <= last'.args[1]) =>
        /\ last'.status = HTTP_422
        /\ Store' = Store]_vars

\* a Create with end = start was answered with a validation error
C4_Witness ==
    /\ last.op = "create_pay_period"
    /\ last.args[2] = last.args[1]
    /\ last.status = HTTP_422

\* C5: Close on an existing OPEN period sets its status to CLOSED; Close on a
\* missing period fails with not-found and Close on a CLOSED period fails
\* with a conflict error, the store unchanged in both failure cases.
C5_Close ==
    [][Serves("close_pay_period") =>
        LET p == last'.args[1]
        IN /\ (PeriodExists(p) /\ periods[p].status = OPEN) =>
                /\ periods' = [periods EXCEPT ![p].status = CLOSED]
                /\ last'.status = HTTP_200
           /\ ~PeriodExists(p) =>
                /\ last'.status = HTTP_404
                /\ Store' = Store
           /\ (PeriodExists(p) /\ periods[p].status = CLOSED) =>
                /\ last'.status = HTTP_400
                /\ Store' = Store]_vars

\* a Close of a period that had been closed before was refused
C5_Witness ==
    /\ last.op = "close_pay_period"
    /\ last.status = HTTP_400
    /\ periods[last.args[1]].status = CLOSED

\* C6: Close leaves the settlements table as it is: no row is created,
\* removed or changed in any field.
C6_CloseKeepsSettlement ==
    [][Serves("close_pay_period") => settlements' = settlements]_vars

\* a period whose settlement is settled was closed
C6_Witness ==
    /\ last.op = "close_pay_period"
    /\ last.status = HTTP_200
    /\ \E k \in SettlementsOf(settlements, last.args[1]) : settlements[k].settled

\* C7: Reopen on a CLOSED period, when no other period is OPEN, succeeds and
\* sets that period's status to OPEN.
C7_Reopen ==
    [][Serves("reopen_pay_period") =>
        LET p == last'.args[1]
        IN (PeriodExists(p) /\ periods[p].status = CLOSED /\ OpenPeriods(periods) = {}) =>
                /\ last'.status = HTTP_200
                /\ periods' = [periods EXCEPT ![p].status = OPEN]]_vars

\* a period was reopened
C7_Witness ==
    /\ last.op = "reopen_pay_period"
    /\ last.status = HTTP_200
    /\ periods[last.args[1]].status = OPEN

\* C8: Reopen on a period that does not exist fails with not-found, Reopen on
\* a period that is already OPEN fails with a conflict error; no period and no
\* settlement changes in either case.
C8_ReopenRefused ==
    [][Serves("reopen_pay_period") =>
        LET p == last'.args[1]
        IN /\ ~PeriodExists(p) =>
                /\ last'.status = HTTP_404
                /\ Store' = Store
           /\ (PeriodExists(p) /\ periods[p].status = OPEN) =>
                /\ last'.status = HTTP_400
                /\ Store' = Store]_vars

\* a Reopen of a period that is OPEN, and has a settled settlement, was refused
C8_Witness ==
    /\ last.op = "reopen_pay_period"
    /\ last.status = HTTP_400
    /\ PeriodExists(last.args[1])
    /\ periods[last.args[1]].status = OPEN
    /\ \E k \in SettlementsOf(settlements, last.args[1]) : settlements[k].settled

\* C9: Reopen on a CLOSED period fails with a conflict error whenever a
\* different period is OPEN, and leaves the period CLOSED and the other OPEN.
C9_ReopenWhileOtherOpen ==
    [][Serves("reopen_pay_period") =>
        LET p == last'.args[1]
        IN (PeriodExists(p) /\ periods[p].status = CLOSED /\ OpenPeriods(periods) # {}) =>
                /\ last'.status = HTTP_400
                /\ periods' = periods
                /\ settlements' = settlements]_vars

\* P1 created and closed, P2 created, Reopen of P1 refused
C9_Witness ==
    /\ last.op = "reopen_pay_period"
    /\ last.status = HTTP_400
    /\ PeriodExists(last.args[1])
    /\ periods[last.args[1]].status = CLOSED
    /\ OpenPeriods(periods) # {}

\* C10: after a successful Reopen of a period that has a Settlement row, the
\* row has settled = false and settled_at = null, whether or not it was settled.
C10_ReopenUnsettles ==
    [][(Serves("reopen_pay_period") /\ last'.status = HTTP_200) =>
        /\ SettlementsOf(settlements', last'.args[1])
             = SettlementsOf(settlements, last'.args[1])
        /\ \A k \in SettlementsOf(settlements', last'.args[1]) :
             /\ ~settlements'[k].settled
             /\ settlements'[k].settled_at = None]_vars

\* create, mark settled, close, reopen: the settlement is unsettled and keeps
\* the payment method it was settled with
C10_Witness ==
    /\ served = 4
    /\ last.op = "reopen_pay_period"
    /\ last.status = HTTP_200
    /\ \E k \in SettlementsOf(settlements, last.args[1]) :
          /\ settlements[k].payment_method # None
          /\ ~settlements[k].settled
          /\ settlements[k].settled_at = None

\* C11: a Reopen of a CLOSED period that has no Settlement row leaves the
\* settlements table as it is (no row is created), and it succeeds whenever
\* the reopening itself is allowed, that is when no other period is OPEN.
C11_ReopenWithoutSettlement ==
    [][Serves("reopen_pay_period") =>
        LET p == last'.args[1]
        IN (/\ PeriodExists(p)
            /\ periods[p].status = CLOSED
            /\ SettlementsOf(settlements, p) = {}) =>
                /\ settlements' = settlements
                /\ OpenPeriods(periods) = {} => last'.status = HTTP_200]_vars

\* a period that never had a settlement was closed and reopened
C11_Witness ==
    /\ last.op = "reopen_pay_period"
    /\ last.status = HTTP_200
    /\ periods[last.args[1]].status = OPEN
    /\ SettlementsOf(settlements, last.args[1]) = {}

\* the fields of a settlement row that the calculator computes
MonetaryFields ==
    {"total_caregiver_cost", "total_expenses", "adi_paid", "rafi_paid",
     "settlement_amount", "settlement_direction", "final_amount"}

\* rows a and b agree on every field of the set fields
SameOn(a, b, fields) == \A f \in fields : a[f] = b[f]

\* table ss2 is table ss with at most row k changed
OnlyRowChanged(ss, ss2, k) ==
    /\ Len(ss2) = Len(ss)
    /\ \A j \in 1..Len(ss) : j # k => ss2[j] = ss[j]

\* C12: GetOrCalculate and Recalculate on a period that has a Settlement row
\* overwrite the row's monetary fields with the values computed from the
\* period's time entries and expenses, and leave its settled, settled_at,
\* payment_method and carryover_amount as they were, also when it is settled.
C12_RecalculatePreserves ==
    [][(Serves("get_settlement") \/ Serves("recalculate_settlement")) =>
        LET p == last'.args[1]
            k == FirstSettlement(settlements, p)
            t == Totals(time_entries, expenses, p)
        IN (PeriodExists(p) /\ k # 0) =>
              /\ last'.status = HTTP_200
              /\ OnlyRowChanged(settlements, settlements', k)
              /\ SameOn(settlements'[k], t, MonetaryFields \ {"final_amount"})
              /\ settlements'[k].final_amount
                    = t.settlement_amount + settlements[k].carryover_amount
              /\ SameOn(settlements'[k], settlements[k],
                        {"pay_period_id", "settled", "settled_at", "payment_method",
                         "carryover_amount"})]_vars

\* create, mark settled, add an expense, recalculate: the settled row has the
\* new totals and is still settled, with its method
C12_Witness ==
    /\ served = 4
    /\ last.op = "recalculate_settlement"
    /\ last.status = HTTP_200
    /\ last.prev = None
    /\ \E k \in SettlementsOf(settlements, last.args[1]) :
          /\ settlements[k].total_expenses > 0
          /\ settlements[k].settled
          /\ settlements[k].settled_at # None
          /\ settlements[k].payment_method # None

\* C13: GetOrCalculate, Recalculate, MarkSettled and Unsettle on a period id
\* that does not exist fail with not-found, leave the store as it is and so
\* create no Settlement row for that id.
C13_MissingPeriod ==
    [][(served' = served + 1 /\ last'.op \in SettlementOps /\ ~PeriodExists(last'.args[1])) =>
        /\ last'.status = HTTP_404
        /\ Store' = Store
        /\ SettlementsOf(settlements', last'.args[1]) = {}]_vars

\* a MarkSettled for an unknown period was refused while another period has a
\* settlement
C13_Witness ==
    /\ last.op = "mark_settled"
    /\ last.status = HTTP_404
    /\ ~PeriodExists(last.args[1])
    /\ SettlementsOf(settlements, last.args[1]) = {}
    /\ settlements # <<>>

\* C14: the first GetOrCalculate for an existing period without a Settlement
\* row appends exactly one row, for that period, with carryover_amount = 0,
\* settled = false, settled_at = null, payment_method = null and final_amount
\* equal to settlement_amount; no other row changes.
C14_FirstCalculation ==
    [][Serves("get_settlement") =>
        LET p == last'.args[1]
        IN (PeriodExists(p) /\ SettlementsOf(settlements, p) = {}) =>
              /\ last'.status = HTTP_200
              /\ Len(settlements') = Len(settlements) + 1
              /\ SubSeq(settlements', 1, Len(settlements)) = settlements
              /\ LET row == settlements'[Len(settlements')]
                 IN /\ row.pay_period_id = p
                    /\ row.carryover_amount = 0
                    /\ row.settled = FALSE
                    /\ row.settled_at = None
                    /\ row.payment_method = None
                    /\ row.final_amount = row.settlement_amount
                    /\ SameOn(row, Totals(time_entries, expenses, p),
                              MonetaryFields \ {"final_amount"})]_vars

\* create a period, add an expense, get the settlement: the third request
\* stored the period's first row, with a positive amount
C14_Witness ==
    /\ served = 3
    /\ last.op = "get_settlement"
    /\ last.status = HTTP_200
    /\ Cardinality(SettlementsOf(settlements, last.args[1])) = 1
    /\ \E k \in SettlementsOf(settlements, last.args[1]) :
          /\ settlements[k].settlement_amount > 0
          /\ settlements[k].final_amount = settlements[k].settlement_amount
          /\ ~settlements[k].settled

\* C15: a GetOrCalculate that directly follows a successful GetOrCalculate on
\* the same period (so no time entry or expense changed in between) succeeds
\* and changes nothing in the store: the row it returns, and so every monetary
\* field, is the one the first call returned.
C15_GetTwice ==
    [][(/\ Serves("get_settlement")
        /\ last.op = "get_settlement"
        /\ last.status = HTTP_200
        /\ last'.args = last.args) =>
            /\ last'.status = HTTP_200
            /\ Store' = Store]_vars

\* create a period, add an expense, get the settlement twice
C15_Witness ==
    /\ last.op = "get_settlement"
    /\ last.status = HTTP_200
    /\ last.prev = Some([op |-> "get_settlement", args |-> last.args])
    /\ \E k \in SettlementsOf(settlements, last.args[1]) :
          settlements[k].settlement_amount > 0

\* C16: after MarkSettled(period, method) on an existing period the period has
\* a Settlement row (the freshly computed one if it had none) with settled =
\* true, settled_at non-null and payment_method equal to the given value; a
\* null method overwrites a stored one.
C16_MarkSettled ==
    [][Serves("mark_settled") =>
        LET p == last'.args[1]
            k == FirstSettlement(settlements', p)
            before == IF FirstSettlement(settlements, p) = 0
                      THEN NewSettlement(p, Totals(time_entries, expenses, p))
                      ELSE settlements[FirstSettlement(settlements, p)]
        IN PeriodExists(p) =>
              /\ last'.status = HTTP_200
              /\ Cardinality(SettlementsOf(settlements', p)) = 1
              /\ settlements'[k].settled = TRUE
              /\ settlements'[k].settled_at # None
              /\ settlements'[k].payment_method = last'.args[2]
              /\ SameOn(settlements'[k], before,
                        MonetaryFields \cup {"pay_period_id", "carryover_amount"})]_vars

\* MarkSettled with a method, then MarkSettled without one: the stored method
\* is null again
C16_Witness ==
    /\ last.op = "mark_settled"
    /\ last.status = HTTP_200
    /\ last.args[2] = None
    /\ last.prev = Some([op |-> "mark_settled", args |-> <<last.args[1], Some("Venmo")>>])
    /\ \E k \in SettlementsOf(settlements, last.args[1]) :
          /\ settlements[k].settled
          /\ settlements[k].payment_method = None

\* the fields of a settlement row
SettlementFields ==
    MonetaryFields \cup {"pay_period_id", "carryover_amount", "settled", "settled_at",
                         "payment_method"}

\* C17: MarkSettled on a settlement that is already settled succeeds and leaves
\* settled = true and every field other than settled_at and payment_method
\* unchanged; with the same method as stored, payment_method is unchanged too.
C17_MarkSettledAgain ==
    [][Serves("mark_settled") =>
        LET p == last'.args[1]
            k == FirstSettlement(settlements, p)
        IN (PeriodExists(p) /\ k # 0 /\ settlements[k].settled) =>
              /\ last'.status = HTTP_200
              /\ OnlyRowChanged(settlements, settlements', k)
              /\ settlements'[k].settled = TRUE
              /\ SameOn(settlements'[k], settlements[k],
                        SettlementFields \ {"settled_at", "payment_method"})
              /\ settlements[k].payment_method = last'.args[2] =>
                    settlements'[k].payment_method = settlements[k].payment_method]_vars

\* MarkSettled twice in a row with the same method, for a period with an expense
C17_Witness ==
    /\ last.op = "mark_settled"
    /\ last.status = HTTP_200
    /\ last.prev = Some([op |-> "mark_settled", args |-> last.args])
    /\ \E k \in SettlementsOf(settlements, last.args[1]) :
          /\ settlements[k].settled
          /\ settlements[k].payment_method = last.args[2]
          /\ settlements[k].total_expenses > 0

\* C18: a successful Unsettle leaves the settlement with settled = false and
\* settled_at = null and every other field (payment_method, carryover_amount,
\* the monetary fields) as before the Unsettle; directly after
\* MarkSettled(period, m) the Unsettle succeeds and payment_method is still m.
C18_MarkThenUnsettle ==
    [][Serves("unsettle") =>
        LET p == last'.args[1]
            k == FirstSettlement(settlements, p)
        IN /\ last'.status = HTTP_200 =>
                /\ k # 0
                /\ OnlyRowChanged(settlements, settlements', k)
                /\ settlements'[k].settled = FALSE
                /\ settlements'[k].settled_at = None
                /\ SameOn(settlements'[k], settlements[k],
                          SettlementFields \ {"settled", "settled_at"})
           /\ (last.op = "mark_settled" /\ last.status = HTTP_200 /\ last.args[1] = p) =>
                /\ last'.status = HTTP_200
                /\ settlements'[k].payment_method = last.args[2]]_vars

\* MarkSettled with a method, then Unsettle: unsettled, the method kept
C18_Witness ==
    /\ last.op = "unsettle"
    /\ last.status = HTTP_200
    /\ last.prev = Some([op |-> "mark_settled", args |-> <<last.args[1], Some("Venmo")>>])
    /\ \E k \in SettlementsOf(settlements, last.args[1]) :
          /\ ~settlements[k].settled
          /\ settlements[k].settled_at = None
          /\ settlements[k].payment_method = Some("Venmo")

\* C19: Unsettle on an existing period without a Settlement row fails with
\* not-found, Unsettle on a settlement that is not settled fails with a
\* conflict error; the store is unchanged in both cases (no row is created).
C19_UnsettleRefused ==
    [][Serves("unsettle") =>
        LET p == last'.args[1]
            k == FirstSettlement(settlements, p)
        IN /\ (PeriodExists(p) /\ k = 0) =>
                /\ last'.status = HTTP_404
                /\ Store' = Store
           /\ (PeriodExists(p) /\ k # 0 /\ ~settlements[k].settled) =>
                /\ last'.status = HTTP_400
                /\ Store' = Store]_vars

\* Unsettle twice in a row: the second is refused, the row is as the first
\* left it
C19_Witness ==
    /\ last.op = "unsettle"
    /\ last.status = HTTP_400
    /\ last.prev = Some([op |-> "unsettle", args |-> last.args])
    /\ \E k \in SettlementsOf(settlements, last.args[1]) : ~settlements[k].settled

\* C20: for every multiset of expenses of a period, with fair_share =
\* total_expenses / 2 (compared here in half cents): if paid_by_A > fair_share
\* the calculated direction is rafi_owes_adi and the amount is paid_by_A -
\* fair_share; else if paid_by_B > fair_share it is adi_owes_rafi with
\* paid_by_B - fair_share; otherwise it is even with amount 0.  The amount is
\* the unrounded one; the stored settlement_amount is that amount at the
\* nearest cent.
C20_Direction ==
    [][((Serves("get_settlement") \/ Serves("recalculate_settlement"))
          /\ last'.status = HTTP_200) =>
        LET p == last'.args[1]
            row == settlements'[FirstSettlement(settlements', p)]
            total_expenses == SumAllAmounts(expenses, p)
            paid_by_A == SumAmounts(expenses, p, {ADI})
            paid_by_B == SumAmounts(expenses, p, {RAFI})
            owed == DetermineSettlement(total_expenses, paid_by_A, paid_by_B)
            Nearest(cents, half_cents) == 2 * cents - half_cents \in {-1, 0, 1}
        IN IF 2 * paid_by_A > total_expenses
           THEN /\ row.settlement_direction = RAFI_OWES_ADI
                /\ owed.settlement_amount = 2 * paid_by_A - total_expenses
                /\ Nearest(row.settlement_amount, 2 * paid_by_A - total_expenses)
           ELSE IF 2 * paid_by_B > total_expenses
           THEN /\ row.settlement_direction = ADI_OWES_RAFI
                /\ owed.settlement_amount = 2 * paid_by_B - total_expenses
                /\ Nearest(row.settlement_amount, 2 * paid_by_B - total_expenses)
           ELSE /\ row.settlement_direction = EVEN
                /\ owed.settlement_amount = 0
                /\ row.settlement_amount = 0]_vars

\* both parties paid the same positive total: the settlement is even
C20_Witness ==
    /\ last.op = "get_settlement"
    /\ last.status = HTTP_200
    /\ \E k \in SettlementsOf(settlements, last.args[1]) :
          /\ settlements[k].adi_paid > 0
          /\ settlements[k].adi_paid = settlements[k].rafi_paid
          /\ settlements[k].settlement_direction = EVEN
          /\ settlements[k].settlement_amount = 0

\* round-half-up of a non-negative amount given in half cents, to whole cents
RoundHalfUp(half_cents) == (half_cents + 1) \div 2

\* C21: the settlement_amount a calculation stores is the unrounded amount
\* rounded to the cent with round-half-up: an amount that ends in half a cent
\* (0.005, 0.025) goes up to the next cent.
C21_RoundHalfUp ==
    [][((Serves("get_settlement") \/ Serves("recalculate_settlement"))
          /\ last'.status = HTTP_200) =>
        LET p == last'.args[1]
            row == settlements'[FirstSettlement(settlements', p)]
            owed == DetermineSettlement(SumAllAmounts(expenses, p),
                                        SumAmounts(expenses, p, {ADI}),
                                        SumAmounts(expenses, p, {RAFI}))
        IN row.settlement_amount = RoundHalfUp(owed.settlement_amount)]_vars

\* this step serves a GetOrCalculate or a Recalculate that succeeds
Calculates ==
    /\ Serves("get_settlement") \/ Serves("recalculate_settlement")
    /\ last'.status = HTTP_200

\* the period's settlement row after the step
CalculatedRow == settlements'[FirstSettlement(settlements', last'.args[1])]

\* C22: balance law.  The settlement a calculation has just stored has
\* adi_paid + rafi_paid = total_expenses to the cent, and total_expenses is the
\* sum of all the period's expenses, whatever create, update, bulk-update and
\* import operations entered them.
C22_BalanceLaw ==
    [][Calculates =>
        /\ CalculatedRow.adi_paid + CalculatedRow.rafi_paid = CalculatedRow.total_expenses
        /\ CalculatedRow.total_expenses = SumAllAmounts(expenses, last'.args[1])]_vars

\* a created expense of Adi and an imported negative one whose payer text
\* names nobody, counted as Rafi's
C22_Witness ==
    /\ last.op = "get_settlement"
    /\ last.status = HTTP_200
    /\ \E k \in SettlementsOf(settlements, last.args[1]) :
          /\ settlements[k].adi_paid > 0
          /\ settlements[k].rafi_paid < 0
          /\ settlements[k].total_expenses = settlements[k].adi_paid + settlements[k].rafi_paid

\* the expenses with the two payers exchanged
SwapPayers(es) ==
    [i \in 1..Len(es) |-> [es[i] EXCEPT !.paid_by = IF @ = ADI THEN RAFI ELSE ADI]]

\* the opposite direction; even is its own opposite
Flip(direction) ==
    IF direction = ADI_OWES_RAFI THEN RAFI_OWES_ADI
    ELSE IF direction = RAFI_OWES_ADI THEN ADI_OWES_RAFI
    ELSE EVEN

\* C23: symmetry.  With paid_by_A and paid_by_B exchanged the calculation
\* gives the opposite direction (even stays even) and the same
\* settlement_amount: for the expenses of every calculation made, and for
\* every pair of paid totals of a few cents, negative ones included.
C23_Symmetry ==
    [][Calculates =>
        LET p == last'.args[1]
            swapped == Totals(time_entries, SwapPayers(expenses), p)
        IN /\ swapped.adi_paid = CalculatedRow.rafi_paid
           /\ swapped.rafi_paid = CalculatedRow.adi_paid
           /\ swapped.settlement_direction = Flip(CalculatedRow.settlement_direction)
           /\ swapped.settlement_amount = CalculatedRow.settlement_amount
           /\ \A a \in -3..3, b \in -3..3 :
                 LET ab == DetermineSettlement(a + b, a, b)
                     ba == DetermineSettlement(a + b, b, a)
                 IN /\ ba.direction = Flip(ab.direction)
                    /\ quantize(ba.settlement_amount) = quantize(ab.settlement_amount)]_vars

\* Rafi paid more than Adi, and both paid something: Adi owes Rafi
C23_Witness ==
    /\ last.op = "get_settlement"
    /\ last.status = HTTP_200
    /\ \E k \in SettlementsOf(settlements, last.args[1]) :
          /\ settlements[k].adi_paid > 0
          /\ settlements[k].rafi_paid > settlements[k].adi_paid
          /\ settlements[k].settlement_direction = ADI_OWES_RAFI
          /\ settlements[k].settlement_amount > 0

\* C24: in every reachable state every Settlement row has final_amount =
\* settlement_amount + carryover_amount.
C24_FinalAmount ==
    \A k \in 1..Len(settlements) :
        settlements[k].final_amount
          = settlements[k].settlement_amount + settlements[k].carryover_amount

\* a settlement with a positive amount was marked settled and unsettled again
C24_Witness ==
    /\ last.op = "unsettle"
    /\ last.status = HTTP_200
    /\ \E k \in SettlementsOf(settlements, last.args[1]) :
          /\ settlements[k].settlement_amount > 0
          /\ settlements[k].final_amount
                = settlements[k].settlement_amount + settlements[k].carryover_amount

\* the fields of a settlement row that make up the balance
BalanceFields ==
    {"total_expenses", "adi_paid", "rafi_paid", "settlement_amount",
     "settlement_direction"}

\* C25: time entries do not influence the balance.  The balance fields a
\* calculation stores are those it would store for the same expenses with no
\* time entry or with another one; only total_caregiver_cost follows the time
\* entries, and every expense, a caregiver payment like any other, is counted
\* once in total_expenses.
C25_TimeEntriesApart ==
    [][Calculates =>
        LET p == last'.args[1]
        IN /\ \A ts \in {<<>>} \cup {<<TimeEntry(p, 1, h, r)>> : h \in {50, 800}, r \in Rates} :
                 SameOn(CalculatedRow, Totals(ts, expenses, p), BalanceFields)
           /\ CalculatedRow.total_caregiver_cost = SumTotalPay(time_entries, p)
           /\ CalculatedRow.total_expenses = SumAllAmounts(expenses, p)
           /\ CalculatedRow.total_expenses
                 = SumAllAmounts(SelectSeq(expenses,
                                           LAMBDA e : e.category = CAREGIVER_PAYMENT), p)
                   + SumAllAmounts(SelectSeq(expenses,
                                             LAMBDA e : e.category # CAREGIVER_PAYMENT), p)]_vars

\* a period with a time entry that cost something and a caregiver payment by
\* Adi alone: Rafi owes half the payment, the time entry adds nothing
C25_Witness ==
    /\ last.op = "get_settlement"
    /\ last.status = HTTP_200
    /\ \E i \in 1..Len(expenses) : expenses[i].category = CAREGIVER_PAYMENT
    /\ \E k \in SettlementsOf(settlements, last.args[1]) :
          /\ settlements[k].total_caregiver_cost > 0
          /\ settlements[k].rafi_paid = 0
          /\ settlements[k].settlement_direction = RAFI_OWES_ADI
          /\ 2 * settlements[k].settlement_amount = settlements[k].total_expenses

\* C26: in every reachable state every Settlement row has settlement_amount
\* >= 0, also when updates, bulk updates or imports have made expense amounts
\* zero or negative.
C26_AmountNotNegative ==
    \A k \in 1..Len(settlements) : settlements[k].settlement_amount >= 0

\* an expense was updated to a negative amount and the settlement calculated:
\* the total is negative, the amount owed is positive
C26_Witness ==
    /\ last.op \in {"get_settlement", "recalculate_settlement"}
    /\ last.status = HTTP_200
    /\ \E i \in 1..Len(expenses) : expenses[i].amount = -2
    /\ \E k \in SettlementsOf(settlements, last.args[1]) :
          /\ settlements[k].total_expenses < 0
          /\ settlements[k].settlement_amount > 0

\* C27: in every state reached by requests served one after the other, every
\* Settlement row has settled_at = null exactly when settled = false.
C27_SettledAt ==
    \A k \in 1..Len(settlements) :
        (settlements[k].settled_at = None) <=> (settlements[k].settled = FALSE)

\* marked settled, unsettled, marked settled again
C27_Witness ==
    /\ last.op = "mark_settled"
    /\ last.status = HTTP_200
    /\ last.prev = Some([op |-> "unsettle", args |-> <<last.args[1]>>])
    /\ \E k \in SettlementsOf(settlements, last.args[1]) :
          /\ settlements[k].settled
          /\ settlements[k].settled_at # None

\* C28: under every interleaving of two concurrent Create calls, the store
\* never holds two OPEN periods.
C28_CreateAtomic ==
    \A i \in 1..Len(periods), j \in 1..Len(periods) :
        i # j => ~(periods[i].status = OPEN /\ periods[j].status = OPEN)

\* C29: MarkSettled is one atomic unit of work: called for a period without
\* a Settlement row, it never commits the row it creates with settled = false.
C29_MarkSettledAtomic ==
    [][\A w \in Workers :
          (/\ sessions[w].pc = "calc_commit"
           /\ sessions[w].op = "mark_settled"
           /\ sessions[w].plan.existing = 0
           /\ sessions'[w].pc = "mark_commit")
          => settlements'[sessions'[w].id].settled]_vars

\* C30: in every step a period's status changes only from OPEN to CLOSED by
\* Close or from CLOSED to OPEN by Reopen, of that period; no other request
\* changes a status, and no existing period is deleted.
C30_StatusChanges ==
    [][/\ Len(periods') >= Len(periods)
       /\ \A i \in 1..Len(periods) :
             /\ periods'[i].start_date = periods[i].start_date
             /\ periods'[i].end_date = periods[i].end_date
             /\ periods'[i].status # periods[i].status =>
                   \/ /\ periods[i].status = OPEN
                      /\ periods'[i].status = CLOSED
                      /\ Serves("close_pay_period")
                      /\ last'.args = <<i>>
                   \/ /\ periods[i].status = CLOSED
                      /\ periods'[i].status = OPEN
                      /\ Serves("reopen_pay_period")
                      /\ last'.args = <<i>>]_vars

\* the notes of a closed period were edited and the period is still closed
C30_Witness ==
    /\ last.op = "update_pay_period"
    /\ last.status = HTTP_200
    /\ periods[last.args[1]].status = CLOSED
    /\ periods[last.args[1]].notes = Some("paid in cash")

\* C31: every pay period enters the store with status OPEN, whether created
\* by Create or by bulk period generation.
C31_CreatedOpen ==
    [][\A i \in (Len(periods) + 1)..Len(periods') : periods'[i].status = OPEN]_vars

\* C32: in every reachable state every stored pay period has its end date
\* strictly after its start date, generated periods included.
C32_EndAfterStart ==
    \A i \in 1..Len(periods) : periods[i].end_date > periods[i].start_date

\* C33: in every reachable state every stored time entry has total_pay equal
\* to hours * hourly_rate rounded to 2 decimal places, import included.
C33_TotalPay ==
    \A i \in 1..Len(time_entries) :
        time_entries[i].total_pay =
            calculate_total_pay(time_entries[i].hours, time_entries[i].hourly_rate)

\* C34: in every reachable state every stored time entry has hours strictly
\* greater than 0 and at most 24.
C34_HoursInRange ==
    \A i \in 1..Len(time_entries) :
        time_entries[i].hours > 0 /\ time_entries[i].hours <= 2400

\* C35: an expense update or bulk update never leaves a stored expense with
\* an amount that is not strictly greater than 0.
C35_AmountPositive ==
    [][(Serves("update_expense") \/ Serves("bulk_update_expenses")) =>
          \A i \in 1..Len(expenses) :
              expenses[i].amount > 0 => expenses'[i].amount > 0]_vars

\* an entry of a bulk request that _create_single_entry accepts
EntryAccepted(entry) == hours_must_be_positive(entry.hours) /\ EntryError(entry) = 0

\* C36: bulk time-entry creation is atomic: if any entry of the batch fails,
\* no entry of the batch is stored; otherwise all of them are, in order.
C36_BulkAtomic ==
    [][Serves("create_time_entries_bulk") =>
          LET entries == last'.args[1]
          IN IF \A k \in 1..Len(entries) : EntryAccepted(entries[k])
             THEN /\ last'.status = HTTP_201
                  /\ Len(time_entries') = Len(time_entries) + Len(entries)
                  /\ SubSeq(time_entries', 1, Len(time_entries)) = time_entries
                  /\ \A k \in 1..Len(entries) :
                        LET row == time_entries'[Len(time_entries) + k]
                        IN /\ row.caregiver_id = entries[k].caregiver_id
                           /\ row.hours = entries[k].hours
                           /\ row.hourly_rate = entries[k].hourly_rate
                           /\ row.pay_period_id # 0
             ELSE /\ last'.status # HTTP_201
                  /\ time_entries' = time_entries]_vars

\* a batch whose first entry is accepted and whose second is not was refused
\* and the table is empty
C36_Witness ==
    /\ last.op = "create_time_entries_bulk"
    /\ last.status \in {HTTP_400, HTTP_404}
    /\ Len(last.args[1]) = 2
    /\ EntryAccepted(last.args[1][1])
    /\ ~EntryAccepted(last.args[1][2])
    /\ time_entries = <<>>

\* C37: a stored settlement with a direction other than even has a
\* settlement_amount strictly greater than 0; one with settlement_amount 0
\* has the direction even.
C37_DirectionHasAmount ==
    \A k \in 1..Len(settlements) :
        settlements[k].settlement_direction # EVEN => settlements[k].settlement_amount > 0

\* C38: MarkSettled on a period that has a Settlement row does not recompute
\* it: the monetary fields and carryover_amount are as before the call, even
\* if the expenses changed since the last calculation.
C38_MarkKeepsTotals ==
    [][Serves("mark_settled") =>
        LET p == last'.args[1]
            k == FirstSettlement(settlements, p)
        IN (PeriodExists(p) /\ k # 0) =>
              /\ last'.status = HTTP_200
              /\ OnlyRowChanged(settlements, settlements', k)
              /\ SameOn(settlements'[k], settlements[k],
                        MonetaryFields \cup {"carryover_amount"})]_vars

\* settled after an expense was entered that the row's totals do not include
C38_Witness ==
    /\ last.op = "mark_settled"
    /\ last.status = HTTP_200
    /\ \E k \in SettlementsOf(settlements, last.args[1]) :
          /\ settlements[k].settled
          /\ settlements[k].total_expenses # SumAllAmounts(expenses, last.args[1])

\* C39: generate_pay_periods terminates for every input, a period length of
\* 0 or less included: a generation that has started ends.
C39_GenerateTerminates ==
    (sessions[1].pc = "generate_loop") ~> (sessions[1].pc = "idle")

====
